---- MODULE Spec2Model ----
(***************************************************************************)
(* closinuf: three quadrature shaft encoders (X, Y, Z) read through GPIO    *)
(* edge events, a periodic RPM sampler, a point store filled by a software  *)
(* trigger or a push-button, and the export/zero operations on it.          *)
(*                                                                          *)
(* Two revisions of site/main.go are modelled side by side, selected by the *)
(* variable "variant":                                                      *)
(*   "simple"  main.go lines 1-900: 50 ms falling-edge button debounce,     *)
(*             the save handler clears the store;                           *)
(*   "robust"  main.go lines 901-1964: rising-edge bounce heuristic,        *)
(*             the save handler leaves the store as it is.                  *)
(* The encoder handler, the sampler, zero, capture and count are the same   *)
(* code in both.                                                            *)
(*                                                                          *)
(* Time is an integer number of milliseconds.  Floating-point quantities    *)
(* are fixed-point integers: distances in micrometres, rpm in 1/1000 rpm.   *)
(***************************************************************************)
EXTENDS Integers, Sequences, FiniteSets, TLC

VARIABLES
    \* ---- program state -------------------------------------------------
    variant,            \* which revision of main.go runs
    fault,              \* TRUE once a handler has panicked
    counter,            \* Encoder.counter, per axis
    lastState,          \* Encoder.lastState, per axis
    lastReadTime,       \* Encoder.lastReadTime, per axis
    lines,              \* Encoder.lines, per axis: "none" before the lines are requested,
                        \* "watched" while RequestLines has the events delivered and has
                        \* not returned (enc.lines is nil), "set" once enc.lines is assigned
    lastReadCount,      \* Encoder.lastReadCount, per axis
    rpm,                \* Encoder.rpm, per axis (1/1000 rpm)
    points,             \* the point store: records [X, Y, Z, id], id being an observer's serial number
    now,                \* the clock, ms
    \* ---- encoder lines and their handlers ------------------------------
    pins,               \* per axis: physical levels of the two lines, (A<<1)|B
    pending,            \* per axis: edge events raised and not yet handled
    hpc,                \* per axis: edge handler "idle" or "apply" (pins read, lock not yet taken)
    sampled,            \* per axis: currentState computed by the handler in flight
    \* ---- HTTP requests in flight and their responses ---------------------
    reqN,               \* requests started so far
    zeroPc,             \* zero handler: -1 idle, 0..2 next axis to reset, 3 about to clear points
    capPc,              \* per client, add-point handler: -1 idle, 0..2 next axis to read, 3 about to append
    capData,            \* per client: the EncoderData that getEncoderData has filled so far
    countResp,          \* the count returned by the last GET /api/points/count (-1: none yet)
    saveStatus,         \* HTTP status of the last GET /api/points/save (0: none yet)
    saveData,           \* the points formatted by the last successful save
    \* ---- the point button ---------------------------------------------
    lastBtnPressTime,   \* simple revision: time of the last accepted press
    lastBtnTriggerTime, \* robust revision: time of the last accepted trigger
    lastPinState,       \* robust revision: last recorded level of the button line (-1: unknown)
    recentRisingEdges,  \* robust revision: times of the recent rising edges
    btnLevel,           \* physical level of the button line: 1 released, 0 pressed
    btnQueue,           \* edge events of the button line raised and not yet handled
    btnPhase,           \* the contact: "up", "closing" (bouncing), "held", "opening" (bouncing)
    bounceN,            \* level changes in the current bounce phase
    pressN,             \* physical presses so far
    \* ---- the RPM sampler ----------------------------------------------
    tickN,              \* ticks of the 100 ms ticker taken so far
    spc,                \* the axis the sampler treats next; -1: waiting for the ticker
    spinStart,          \* when the uniform spin began, ms; -1: not begun
    \* ---- observers (history of what happened; never read by the program)
    rot,                \* per axis: physical encoder steps so far
    prevSample,         \* per axis: the pin state of the previously processed edge
    cwN, ccwN,          \* per axis: processed clockwise / counter-clockwise steps
    clean,              \* per axis: every processed edge so far was a one-bit step
    startPins,          \* per axis: the level of the two lines when the program started
    diagN,              \* per axis: processed edges whose sample was the diagonal of lastState
    zeroN,              \* zero requests so far
    zq,                 \* "done": a zero ran undisturbed and nothing but zero steps ran since;
                        \* "run": a zero is running undisturbed; "n": otherwise
    appendN,            \* points appended so far (the id of the last one)
    saveN,              \* save requests served so far
    lastOp,             \* the operation that completed last
    pressCaps,          \* points appended on behalf of the current (or last) physical press
    burst,              \* the burst of rising edges being followed: [len, first, last, t0, caps]
    lastBtn,            \* what the last handled button edge saw
    smpFrom,            \* per axis: the time of the sample before the last one
    smpN,               \* per axis: samples taken
    edgeSince,          \* per axis: the handler has changed the counter since the last sample
    zdirty,             \* an edge was counted or a point appended since the last zero began
    wlog,               \* the last two writes of the point store: [op, id, over]
    capSeen,            \* per client and axis: the counter values held since the capture began
    \* ---- the locks of the axes ------------------------------------------
    inCS,               \* per axis: who is inside a section locked by enc.mu
    sLocals,            \* the sampler's locals now and currentCount, set under the lock
    pmu,                \* who is inside a section locked by pointsMu
    \* ---- the history of the history-recording variants ------------------
    history,            \* history (part_001), historyPoints (part_000): one point per tick
    maxHistory,         \* maxHistory (part_001), maxHistorySize (part_000)
    \* ---- the WebSocket connections of part_000 --------------------------
    wsClients,          \* wsClients: the registered connections
    wsPc,               \* per connection: where its handler is
    wsCopy,             \* per connection: len(history), the handler's copy
    wsOut,              \* per connection: the types of the messages written to it, in order
    wsWriters,          \* per connection: who is inside c.WriteMessage
    bTodo,              \* broadcastDataPoint: the connections the range has yet to visit
    bCur                \* broadcastDataPoint: the connection being written to, or 0

encVars   == <<counter, lastState, lastReadTime, lastReadCount, rpm, lines>>
edgeVars  == <<pins, pending, hpc, sampled>>
httpVars  == <<reqN, zeroPc, capPc, capData, countResp, saveStatus, saveData>>
decObs    == <<rot, prevSample, cwN, ccwN, clean, diagN, startPins>>
storeObs  == <<zeroN, appendN, saveN>>
btnVars   == <<lastBtnPressTime, lastBtnTriggerTime, lastPinState, recentRisingEdges>>
btnEnv    == <<btnLevel, btnQueue, btnPhase, bounceN, pressN>>
btnObs    == <<pressCaps, burst, lastBtn>>
btnAll    == <<btnVars, btnEnv, btnObs>>
wsAll     == <<wsClients, wsPc, wsCopy, wsOut, wsWriters, bTodo, bCur>>
histAll   == <<history, maxHistory, wsAll>>
smpAll    == <<tickN, spc, spinStart, smpFrom, smpN, edgeSince>>
obs2      == <<zdirty, wlog, capSeen>>
axVars    == <<inCS, sLocals>>
lkVars    == <<axVars, pmu>>
vars      == <<variant, fault, encVars, points, now, edgeVars, httpVars, btnAll, histAll, smpAll,
               obs2, lkVars,
               decObs, storeObs, zq, lastOp>>

----------------------------------------------------------------------------
(* Bounds of the model *)

MaxOps     == 4     \* encoder steps and HTTP requests explored, together
MaxClients == 1     \* add-point requests that may be in flight together
MaxPending == 2     \* edge events an axis may have waiting
MaxTurn    == 2400  \* steps of the full-revolution run
TimeStep   == 50    \* resolution of the clock in the button runs, ms
MaxTime    == 600   \* length of the button runs, ms
MaxPress   == 1     \* physical presses of the button
MaxBounce  == 2     \* level changes of a bouncing contact, per bounce
MaxQueue   == 2     \* button edge events that may be waiting
MaxStartMs == 2     \* latest begin of the uniform spin, ms
MaxLateMs  == 2     \* latest the sampler treats an axis after its tick is due, ms
MaxRunMs   == 1102  \* length of the sampler runs, ms
MaxTicks   == 2     \* ticks the sampler takes in the runs with free encoders
MaxSteps   == 2     \* encoder steps in the runs with free encoders and a sampler

----------------------------------------------------------------------------
(* Constants of the program *)

NumAxes == 3
Axes    == 0 .. (NumAxes - 1)          \* X=0, Y=1, Z=2
Variants == {"simple", "robust"}
\* the revisions that record a history: part_001 and, with the WebSocket, part_000
HistoryVariants == {"history", "websocket"}
Clients == 1 .. MaxClients

countsPerRev == 2400

\* time.NewTicker(100 * time.Millisecond)
SamplePeriodMs == 100
\* the second over which the spin is spread, ms: ten periods of the sampler
SpinMs == 10 * SamplePeriodMs

\* button timing, ms
btnDebounceMsSimple == 50       \* simple revision: const btnDebounceMs = 50
btnDebounceMs       == 300      \* robust revision: btnDebounceMs = 300
RisingWindowMs      == 100      \* now.Add(-100 * time.Millisecond)
FallbackMs          == 500      \* timeSinceLastTrigger > 500*time.Millisecond
\* the zero time.Time: now.Sub of it saturates at the largest Duration
ZeroTime            == -1000000

NoBurst == [len |-> 0, first |-> 0, last |-> 0, t0 |-> 0, caps |-> 0]
NoEdge  == [type |-> "NONE", since |-> 0, edgeCount |-> 0, level |-> -1, prevPin |-> -1]
wheelCircumference == 157080          \* pi * 50 mm, in micrometres (157.0796 mm)

\* the table with the sign of 11 -> 01 flipped
DeltaTableFlipped ==
    << 0, -1,  1,  0,
       1,  0,  0, -1,
      -1,  0,  0,  1,
       0, -1, -1,  0 >>

\* Quadrature table: +1 = CW, -1 = CCW, 0 = no/invalid change
deltaTable ==
    << 0, -1,  1,  0,
       1,  0,  0, -1,
      -1,  0,  0,  1,
       0,  1, -1,  0 >>

\* uint8((values[0] << 1) | values[1]) for two line levels in {0, 1}
PinState(a, b) == a * 2 + b

\* int(lastState)<<2 | int(currentState): both operands are 2-bit values, so the
\* bits do not overlap and the OR is the sum
TransitionIndex(last, cur) == last * 4 + cur

\* deltaTable[idx]; Go panics on an index outside 0..15
InTable(idx) == (idx + 1) \in DOMAIN deltaTable
Lookup(idx)  == IF InTable(idx) THEN deltaTable[idx + 1] ELSE 0

\* var data EncoderData: the zero value
EmptyData == [i \in 1 .. NumAxes |-> [Count |-> 0, RPM |-> 0, Distance |-> 0]]

Abs(n) == IF n < 0 THEN -n ELSE n
Sgn(n) == IF n < 0 THEN -1 ELSE 1

\* a distance computed from the wheel diameter (50 mm) instead of the circumference
DistanceFromDiameter(count) == Sgn(count) * ((Abs(count) * 50000) \div countsPerRev)

\* distance := (float64(count) / countsPerRev) * wheelCircumference, in micrometres
\* (symmetric truncation for negative counts)
Distance(count) == Sgn(count) * ((Abs(count) * wheelCircumference) \div countsPerRev)

----------------------------------------------------------------------------
(* The canonical Gray-code cycle, stated independently of the table:        *)
(* clockwise is 00 -> 10 -> 11 -> 01 -> 00.                                 *)

CWNext(s)  == CASE s = 0 -> 2 [] s = 2 -> 3 [] s = 3 -> 1 [] s = 1 -> 0
CCWNext(s) == CASE s = 0 -> 1 [] s = 1 -> 3 [] s = 3 -> 2 [] s = 2 -> 0
OneBit(p, c)   == c = CWNext(p) \/ c = CCWNext(p)
Diagonal(p, c) == p + c = 3            \* 00<->11, 01<->10

----------------------------------------------------------------------------
(* Initial state: main() up to the start of the server *)

InitEncoders ==
    /\ counter = [a \in Axes |-> 0]
    /\ lastState = [a \in Axes |-> 0]
    /\ lastReadTime = [a \in Axes |-> 0]
    /\ lastReadCount = [a \in Axes |-> 0]
    /\ rpm = [a \in Axes |-> 0]

InitProgram ==
    /\ fault = FALSE
    /\ InitEncoders
    /\ points = << >>
    /\ now = 0
    \* the lines may be at any level when the program starts
    /\ \E s \in 0 .. 3 : pins = [a \in Axes |-> s]
    /\ pending = [a \in Axes |-> 0]
    /\ hpc = [a \in Axes |-> "idle"]
    /\ sampled = [a \in Axes |-> 0]
    /\ reqN = 0
    /\ zeroPc = -1
    /\ capPc = [c \in Clients |-> -1]
    /\ capData = [c \in Clients |-> EmptyData]
    /\ countResp = -1
    /\ saveStatus = 0
    /\ saveData = << >>
    /\ rot = [a \in Axes |-> 0]
    /\ prevSample = [a \in Axes |-> 0]
    /\ cwN = [a \in Axes |-> 0]
    /\ ccwN = [a \in Axes |-> 0]
    /\ clean = [a \in Axes |-> TRUE]
    /\ diagN = [a \in Axes |-> 0]
    /\ startPins = pins
    /\ zeroN = 0
    /\ zq = "n"
    /\ appendN = 0
    /\ saveN = 0
    /\ lastOp = "init"
    /\ lastBtnPressTime = ZeroTime
    /\ lastBtnTriggerTime = ZeroTime
    /\ lastPinState = -1
    /\ recentRisingEdges = << >>
    /\ btnLevel = 1
    /\ btnQueue = << >>
    /\ btnPhase = "up"
    /\ bounceN = 0
    /\ pressN = 0
    /\ pressCaps = 0
    /\ burst = NoBurst
    /\ lastBtn = NoEdge
    /\ tickN = 0
    /\ spc = -1
    /\ spinStart = -1
    /\ smpFrom = [a \in Axes |-> 0]
    /\ smpN = [a \in Axes |-> 0]
    /\ edgeSince = [a \in Axes |-> FALSE]
    /\ zdirty = FALSE
    /\ wlog = << >>
    /\ capSeen = [c \in Clients |-> [a \in Axes |-> {}]]
    /\ inCS = [a \in Axes |-> {}]
    /\ sLocals = [currentCount |-> 0, now |-> 0]
    /\ pmu = {}
    /\ wsClients = {}
    /\ wsPc = [c \in Clients |-> "none"]
    /\ wsCopy = [c \in Clients |-> 0]
    /\ wsOut = [c \in Clients |-> << >>]
    /\ wsWriters = [c \in Clients |-> {}]
    /\ bTodo = {}
    /\ bCur = 0

\* main() up to the start of the server: the lines of every axis are
\* requested and enc.lines is assigned
InitCommon ==
    /\ variant \in Variants
    /\ maxHistory = 0
    /\ history = << >>
    /\ InitProgram
    /\ lines = [a \in Axes |-> "set"]

----------------------------------------------------------------------------
(* Environment: the shaft of axis a turns by one quadrature step; one of    *)
(* the two lines changes level and the kernel raises one edge event.        *)

RotTotal == rot[0] + rot[1] + rot[2]

\* encoder steps and requests so far
OpsDone == RotTotal + reqN

Rotate(a) ==
    /\ OpsDone < MaxOps
    /\ pending[a] < MaxPending
    /\ \E s \in {CWNext(pins[a]), CCWNext(pins[a])} :
          pins' = [pins EXCEPT ![a] = s]
    /\ pending' = [pending EXCEPT ![a] = @ + 1]
    /\ rot' = [rot EXCEPT ![a] = @ + 1]
    /\ zq' = "n"
    /\ UNCHANGED <<obs2, lkVars, btnAll, histAll, smpAll, variant, fault, encVars, points, now, hpc, sampled, httpVars,
                   prevSample, cwN, ccwN, clean, diagN, startPins, storeObs, lastOp>>

----------------------------------------------------------------------------
(* The encoder edge handler.  It reads the two lines as they are when it    *)
(* runs (not as they were when the edge was raised), outside the lock, and  *)
(* then updates the axis under enc.mu.                                      *)

\* values := make([]int, 2); enc.lines.Values(values) succeeds;
\* currentState := uint8((values[0] << 1) | values[1])
HandlerRead(a) ==
    /\ lines[a] = "set"
    /\ hpc[a] = "idle"
    /\ pending[a] > 0
    /\ pending' = [pending EXCEPT ![a] = @ - 1]
    /\ sampled' = [sampled EXCEPT ![a] = PinState(pins[a] \div 2, pins[a] % 2)]
    /\ hpc' = [hpc EXCEPT ![a] = "apply"]
    /\ zq' = "n"
    /\ UNCHANGED <<obs2, lkVars, btnAll, histAll, smpAll, variant, fault, encVars, points, now, pins, httpVars,
                   decObs, storeObs, lastOp>>

\* if err := enc.lines.Values(values); err != nil { return }
HandlerReadFails(a) ==
    /\ lines[a] = "set"
    /\ hpc[a] = "idle"
    /\ pending[a] > 0
    /\ pending' = [pending EXCEPT ![a] = @ - 1]
    /\ zq' = "n"
    /\ lastOp' = "edge"
    /\ UNCHANGED <<obs2, lkVars, btnAll, histAll, smpAll, variant, fault, encVars, points, now, pins, hpc, sampled, httpVars,
                   decObs, storeObs>>

\* a lock that never blocks
CanLockAlways(a) == TRUE

\* one lock for all the encoders
CanLockGlobal(a) == \A b \in DOMAIN inCS : inCS[b] = {}

\* enc.mu.Lock() or enc.mu.RLock() returns: nobody is inside a section of axis a
\* that enc.mu write-locks
CanLock(a) == inCS[a] = {}

\* the observer of the captures in flight sees axis a take the value v
Seen(a, v) ==
    [c \in Clients |-> IF capPc[c] = -1 THEN capSeen[c]
                       ELSE [capSeen[c] EXCEPT ![a] = @ \cup {v}]]

\* a decoder that treats a skipped state as two steps
NewCounterSkipCounts(a) ==
    IF sampled[a] # lastState[a]
    THEN IF Diagonal(lastState[a], sampled[a])
         THEN counter[a] + 2
         ELSE counter[a] + Lookup(TransitionIndex(lastState[a], sampled[a]))
    ELSE counter[a]

\* a decoder that counts every step twice
NewCounterTwoPerStep(a) ==
    IF sampled[a] # lastState[a]
    THEN counter[a] + 2 * Lookup(TransitionIndex(lastState[a], sampled[a]))
    ELSE counter[a]

\* a handler that keeps the last state when the transition counts for nothing
NewLastStateKeptOnZeroDelta(a) ==
    IF sampled[a] # lastState[a] /\ Lookup(TransitionIndex(lastState[a], sampled[a])) = 0
    THEN lastState[a]
    ELSE sampled[a]

\* the last state after the locked section: enc.lastState = currentState, or
\* the old value when currentState == enc.lastState
NewLastState(a) == sampled[a]

\* the counter after the locked section: if delta != 0 { enc.counter += delta }
NewCounter(a) ==
    IF sampled[a] # lastState[a]
    THEN counter[a] + Lookup(TransitionIndex(lastState[a], sampled[a]))
    ELSE counter[a]

\* if currentState != enc.lastState { ... }: the section the handler locks
ApplyBody(a) ==
    /\ hpc[a] = "apply"
    /\ hpc' = [hpc EXCEPT ![a] = "idle"]
    /\ IF sampled[a] # lastState[a] /\ ~InTable(TransitionIndex(lastState[a], sampled[a]))
       THEN /\ fault' = TRUE
            /\ UNCHANGED <<counter, lastState>>
       ELSE /\ counter' = [counter EXCEPT ![a] = NewCounter(a)]
            /\ lastState' = [lastState EXCEPT ![a] = NewLastState(a)]
            /\ UNCHANGED fault
    \* observers
    /\ prevSample' = [prevSample EXCEPT ![a] = sampled[a]]
    /\ cwN'  = [cwN  EXCEPT ![a] = IF sampled[a] = CWNext(prevSample[a])  THEN @ + 1 ELSE @]
    /\ ccwN' = [ccwN EXCEPT ![a] = IF sampled[a] = CCWNext(prevSample[a]) THEN @ + 1 ELSE @]
    /\ clean' = [clean EXCEPT ![a] = @ /\ OneBit(prevSample[a], sampled[a])]
    /\ diagN' = [diagN EXCEPT ![a] = IF Diagonal(lastState[a], sampled[a]) THEN @ + 1 ELSE @]
    /\ zq' = "n"
    /\ lastOp' = "edge"
    /\ zdirty' = TRUE
    /\ capSeen' = Seen(a, IF fault' THEN counter[a] ELSE NewCounter(a))
    /\ edgeSince' = [edgeSince EXCEPT ![a] = @ \/ counter'[a] # counter[a]]
    /\ UNCHANGED <<wlog, btnAll, histAll, tickN, spc, spinStart, smpFrom, smpN, variant, lastReadTime, lastReadCount, rpm, lines, points, now,
                   pins, pending, sampled, httpVars, rot, startPins, storeObs>>

\* enc.mu.Lock(); if currentState != enc.lastState { ... }; enc.mu.Unlock()
HandlerApply(a) ==
    /\ CanLock(a)
    /\ ApplyBody(a)
    /\ UNCHANGED lkVars

\* enc.mu.Lock() returns in the handler of axis a
HandlerLock(a) ==
    /\ hpc[a] = "apply"
    /\ "handler" \notin inCS[a]
    /\ CanLock(a)
    /\ inCS' = [inCS EXCEPT ![a] = @ \cup {"handler"}]
    /\ zq' = "n"
    /\ UNCHANGED <<obs2, sLocals, pmu, btnAll, histAll, smpAll, variant, fault, encVars, points, now,
                   edgeVars, httpVars, decObs, storeObs, lastOp>>

\* if currentState != enc.lastState { ... }; enc.mu.Unlock()
HandlerUnlock(a) ==
    /\ "handler" \in inCS[a]
    /\ ApplyBody(a)
    /\ inCS' = [inCS EXCEPT ![a] = @ \ {"handler"}]
    /\ UNCHANGED <<sLocals, pmu>>

----------------------------------------------------------------------------
(* The writes of the point store, each made under pointsMu *)

\* an append that puts the point in front
StorePrepend(p) == <<p>> \o points

\* an append into a store that keeps the newest two points
StoreAppendNewestTwo(p) ==
    IF Len(points) >= 2 THEN Append(Tail(points), p) ELSE Append(points, p)

\* points = append(points, Point{...})
StoreAppend(p) == Append(points, p)

\* a clear that spares the oldest point
ClearedStoreKeepsFirst == IF points = << >> THEN << >> ELSE <<points[1]>>

\* a clear that misses the point appended last
ClearedStoreKeepsLast == IF points = << >> THEN << >> ELSE <<points[Len(points)]>>

\* points = []Point{}
ClearedStore == << >>

\* the observer's record of a write; over: an operation of the other kind
\* (zero for an append, capture for a clear) was in flight when it was made
Logged(op, id, over) ==
    LET w == [op |-> op, id |-> id, over |-> over]
    IN  IF wlog = << >> THEN <<w>> ELSE <<wlog[Len(wlog)], w>>

CaptureInFlight == \E c \in Clients : capPc[c] # -1

----------------------------------------------------------------------------
(* POST /api/encoder/zero: one locked section per axis, then one on the     *)
(* point store.                                                             *)

ZeroStart ==
    /\ zeroPc = -1
    /\ OpsDone < MaxOps
    /\ reqN' = reqN + 1
    /\ zeroPc' = 0
    /\ zeroN' = zeroN + 1
    /\ zq' = IF zq = "done" THEN "done" ELSE "run"
    /\ zdirty' = FALSE
    /\ UNCHANGED <<wlog, capSeen, lkVars, btnAll, histAll, smpAll, variant, fault, encVars, points, now, edgeVars,
                   capPc, capData, countResp, saveStatus, saveData,
                   decObs, appendN, saveN, lastOp>>

\* a reset that flips the sign instead of clearing
ZeroedCounterNegated(a) == [counter EXCEPT ![a] = -@]

\* a reset that leaves out the last axis
ZeroedCounterNotLast(a) == IF a = NumAxes - 1 THEN counter ELSE [counter EXCEPT ![a] = 0]

\* the reset of one axis: enc.counter = 0
ZeroedCounter(a) == [counter EXCEPT ![a] = 0]

\* a reset that starts the sampler's delta again from the new counter
ZeroedLastReadCountReset(a) == [lastReadCount EXCEPT ![a] = 0]

\* the reset assigns enc.counter only: enc.lastReadCount keeps the count of
\* the last sample
ZeroedLastReadCount(a) == lastReadCount

\* a reset that takes the lines to be low again
ZeroedLastStateReset(a) == [lastState EXCEPT ![a] = 0]

\* the reset assigns enc.counter only: enc.lastState keeps the last sample
ZeroedLastState(a) == lastState

\* enc.counter = 0: the section zero locks on one axis
ZeroAxisBody ==
    /\ zeroPc \in Axes
    /\ counter' = ZeroedCounter(zeroPc)
    /\ lastReadCount' = ZeroedLastReadCount(zeroPc)
    /\ lastState' = ZeroedLastState(zeroPc)
    /\ zeroPc' = zeroPc + 1
    \* observers: the counted sequence of that axis starts again
    /\ cwN'  = [cwN  EXCEPT ![zeroPc] = 0]
    /\ ccwN' = [ccwN EXCEPT ![zeroPc] = 0]
    /\ clean' = [clean EXCEPT ![zeroPc] = TRUE]
    /\ capSeen' = Seen(zeroPc, 0)
    /\ UNCHANGED <<zdirty, wlog, btnAll, histAll, smpAll, variant, fault, lastReadTime, rpm, lines, points, now,
                   edgeVars, reqN, capPc, capData, countResp, saveStatus, saveData,
                   rot, prevSample, diagN, startPins, storeObs, zq, lastOp>>

\* enc.mu.Lock(); enc.counter = 0; enc.mu.Unlock()
ZeroAxis ==
    /\ zeroPc \in Axes
    /\ CanLock(zeroPc)
    /\ ZeroAxisBody
    /\ UNCHANGED lkVars

\* pointsMu.Lock() returns: nobody is inside a section that pointsMu locks
CanLockPoints == pmu = {}

\* pointsMu.RLock() returns: nobody is inside a section that pointsMu write-locks
CanRLockPoints == pmu \subseteq {"count"}

\* points = []Point{}: the section zero locks on the store
ZeroPointsBody ==
    /\ zeroPc = NumAxes
    /\ points' = ClearedStore
    /\ wlog' = Logged("clear", 0, CaptureInFlight)
    /\ zeroPc' = -1
    /\ zq' = IF zq \in {"run", "done"} THEN "done" ELSE "n"
    /\ lastOp' = "zero"
    /\ UNCHANGED <<zdirty, capSeen, btnAll, histAll, smpAll, variant, fault, encVars, now, edgeVars,
                   reqN, capPc, capData, countResp, saveStatus, saveData,
                   decObs, storeObs>>

\* pointsMu.Lock(); points = []Point{}; pointsMu.Unlock()
ZeroPoints ==
    /\ CanLockPoints
    /\ ZeroPointsBody
    /\ UNCHANGED lkVars

----------------------------------------------------------------------------
(* POST /api/points/add: getEncoderData reads the three axes, each under    *)
(* its own read lock, then the point is appended under pointsMu.            *)

CaptureStart(c) ==
    /\ capPc[c] = -1
    /\ OpsDone < MaxOps
    /\ reqN' = reqN + 1
    /\ capPc' = [capPc EXCEPT ![c] = 0]
    /\ zq' = "n"
    /\ capSeen' = [capSeen EXCEPT ![c] = [a \in Axes |-> {counter[a]}]]
    /\ UNCHANGED <<zdirty, wlog, lkVars, btnAll, histAll, smpAll, variant, fault, encVars, points, now, edgeVars,
                   zeroPc, capData, countResp, saveStatus, saveData,
                   decObs, storeObs, lastOp>>

\* values that take the distance from the count of the last sample
ReadAxisStaleDistance(a) ==
    [Count |-> counter[a], RPM |-> rpm[a], Distance |-> Distance(lastReadCount[a])]

\* enc.mu.RLock(); count := enc.counter; rpm := enc.rpm; enc.mu.RUnlock();
\* distance := (float64(count) / countsPerRev) * wheelCircumference;
\* values := EncoderValues{Count: count, RPM: rpm, Distance: distance}
ReadAxis(a) ==
    [Count |-> counter[a], RPM |-> rpm[a], Distance |-> Distance(counter[a])]

\* count := enc.counter; rpm := enc.rpm: the section getEncoderData read-locks
\* on one axis, and the values it makes of them
CaptureReadBody(c) ==
    /\ capPc[c] \in Axes
    /\ capData' = [capData EXCEPT ![c][capPc[c] + 1] = ReadAxis(capPc[c])]
    /\ capPc' = [capPc EXCEPT ![c] = @ + 1]
    /\ zq' = "n"
    /\ UNCHANGED <<obs2, btnAll, histAll, smpAll, variant, fault, encVars, points, now, edgeVars,
                   reqN, zeroPc, countResp, saveStatus, saveData,
                   decObs, storeObs, lastOp>>

\* one turn of the loop of getEncoderData: data.X, data.Y or data.Z = values
CaptureRead(c) ==
    /\ capPc[c] \in Axes
    /\ CanLock(capPc[c])
    /\ CaptureReadBody(c)
    /\ UNCHANGED lkVars

\* a point with X and Y taken from each other's axis
NewPointSwapped(data, n) ==
    [X |-> data[2].Distance, Y |-> data[1].Distance, Z |-> data[3].Distance, id |-> n]

\* Point{X: data.X.Distance, Y: data.Y.Distance, Z: data.Z.Distance}
NewPoint(data, n) ==
    [X |-> data[1].Distance, Y |-> data[2].Distance, Z |-> data[3].Distance, id |-> n]

\* points = append(points, Point{...}): the section the add handler locks
CaptureAppendBody(c) ==
    /\ capPc[c] = NumAxes
    /\ points' = StoreAppend(NewPoint(capData[c], appendN + 1))
    /\ wlog' = Logged("append", appendN + 1, zeroPc # -1)
    /\ appendN' = appendN + 1
    /\ capPc' = [capPc EXCEPT ![c] = -1]
    /\ zq' = "n"
    /\ lastOp' = "capture"
    /\ zdirty' = TRUE
    \* observer: the capture is over
    /\ capSeen' = [capSeen EXCEPT ![c] = [a \in Axes |-> {}]]
    /\ UNCHANGED <<btnAll, histAll, smpAll, variant, fault, encVars, now, edgeVars,
                   reqN, zeroPc, capData, countResp, saveStatus, saveData,
                   decObs, zeroN, saveN>>

\* pointsMu.Lock(); points = append(points, Point{...}); pointsMu.Unlock()
CaptureAppend(c) ==
    /\ CanLockPoints
    /\ CaptureAppendBody(c)
    /\ UNCHANGED lkVars

----------------------------------------------------------------------------
(* GET /api/points/count *)

\* count := len(points): the section the count handler read-locks
CountBody ==
    /\ countResp' = Len(points)
    /\ zq' = "n"
    /\ lastOp' = "count"
    /\ UNCHANGED <<obs2, btnAll, histAll, smpAll, variant, fault, encVars, points, now, edgeVars,
                   zeroPc, capPc, capData, saveStatus, saveData,
                   decObs, storeObs>>

\* pointsMu.RLock(); count := len(points); pointsMu.RUnlock()
Count ==
    /\ OpsDone < MaxOps
    /\ reqN' = reqN + 1
    /\ CanRLockPoints
    /\ CountBody
    /\ UNCHANGED lkVars

----------------------------------------------------------------------------
(* GET /api/points/save: one locked section *)

\* fmt.Sprintf("%.6f %.6f %.6f\n", p.X, p.Y, p.Z): millimetres with six decimals,
\* that is, units of 1e-6 mm
FormatPoint(p) == [x |-> p.X * 1000, y |-> p.Y * 1000, z |-> p.Z * 1000, id |-> p.id]

\* for _, p := range points { ascData += ... }
AscData(ps) == [i \in 1 .. Len(ps) |-> FormatPoint(ps[i])]

\* the store after a successful save: "simple" clears it (points = []Point{}),
\* "robust" has no such statement
PointsAfterSave == IF variant = "simple" THEN ClearedStore ELSE points

\* the section the save handler locks, from pointsMu.Lock() to either
\* pointsMu.Unlock() (the one before the early return, the one after the loop)
SaveBody ==
    /\ saveN' = saveN + 1
    /\ IF Len(points) = 0
       THEN /\ saveStatus' = 400
            /\ saveData' = << >>
            /\ UNCHANGED <<points, wlog>>
       ELSE /\ saveStatus' = 200
            /\ saveData' = AscData(points)
            /\ points' = PointsAfterSave
            /\ wlog' = IF variant = "simple" THEN Logged("drain", 0, CaptureInFlight) ELSE wlog
    /\ zq' = "n"
    /\ lastOp' = "save"
    /\ UNCHANGED <<zdirty, capSeen, btnAll, histAll, smpAll, variant, fault, encVars, now, edgeVars,
                   zeroPc, capPc, capData, countResp,
                   decObs, zeroN, appendN>>

\* pointsMu.Lock(); if len(points) == 0 { pointsMu.Unlock(); ...; return }; ...;
\* pointsMu.Unlock()
Save ==
    /\ OpsDone < MaxOps
    /\ reqN' = reqN + 1
    /\ CanLockPoints
    /\ SaveBody
    /\ UNCHANGED lkVars

----------------------------------------------------------------------------
(* The point button: the contact and the clock.  A press closes the        *)
(* contact (line low), a release opens it (line high); while it closes or  *)
(* opens the contact may bounce, each bounce being one more change of      *)
(* level.  A bounce is short against the clock resolution, so the clock    *)
(* stands still while the contact bounces.  Every change of level raises   *)
(* an edge event, FALLING or RISING; a FALLING event may fail to be raised  *)
(* (the robust revision is written for a line whose falling edges are not  *)
(* detected).                                                              *)

BtnFrame ==
    /\ zq' = "n"
    /\ UNCHANGED <<capSeen, lkVars, histAll, smpAll, variant, fault, encVars, edgeVars, httpVars, decObs, zeroN, saveN, lastOp>>

\* the queue after a change of level to lv
Raised(lv, delivered) ==
    IF lv = 1 THEN Append(btnQueue, "RISING")
    ELSE IF delivered THEN Append(btnQueue, "FALLING")
    ELSE btnQueue

BtnPress ==
    /\ btnPhase = "up"
    /\ pressN < MaxPress
    /\ btnQueue = << >>
    /\ btnPhase' = "closing"
    /\ btnLevel' = 0
    /\ bounceN' = 0
    /\ pressN' = pressN + 1
    /\ pressCaps' = 0
    /\ \E delivered \in BOOLEAN : btnQueue' = Raised(0, delivered)
    /\ BtnFrame
    /\ UNCHANGED <<zdirty, wlog, btnVars, burst, lastBtn, points, appendN, now>>

BtnBounce ==
    /\ btnPhase \in {"closing", "opening"}
    /\ bounceN < MaxBounce
    /\ Len(btnQueue) < MaxQueue
    /\ btnLevel' = 1 - btnLevel
    /\ bounceN' = bounceN + 1
    /\ \E delivered \in BOOLEAN : btnQueue' = Raised(1 - btnLevel, delivered)
    /\ BtnFrame
    /\ UNCHANGED <<zdirty, wlog, btnVars, btnPhase, pressN, btnObs, points, appendN, now>>

BtnSettle ==
    /\ \/ btnPhase = "closing" /\ btnLevel = 0 /\ btnPhase' = "held"
       \/ btnPhase = "opening" /\ btnLevel = 1 /\ btnPhase' = "up"
    /\ BtnFrame
    /\ UNCHANGED <<zdirty, wlog, btnVars, btnLevel, btnQueue, bounceN, pressN, btnObs, points, appendN, now>>

BtnRelease ==
    /\ btnPhase = "held"
    /\ Len(btnQueue) < MaxQueue
    /\ btnPhase' = "opening"
    /\ btnLevel' = 1
    /\ bounceN' = 0
    /\ btnQueue' = Raised(1, TRUE)
    /\ BtnFrame
    /\ UNCHANGED <<zdirty, wlog, btnVars, pressN, btnObs, points, appendN, now>>

Tick ==
    /\ btnPhase \in {"up", "held"}
    /\ now + TimeStep <= MaxTime
    /\ now' = now + TimeStep
    /\ BtnFrame
    /\ UNCHANGED <<zdirty, wlog, btnVars, btnEnv, btnObs, points, appendN>>

----------------------------------------------------------------------------
(* The button handler, simple revision: a falling edge is a press unless   *)
(* it comes less than 50 ms after the last accepted one.                   *)

\* data := getEncoderData(); points = append(points, Point{...})
ButtonPoint == NewPoint(<<ReadAxis(0), ReadAxis(1), ReadAxis(2)>>, appendN + 1)

\* pointsMu.Lock(); points = append(points, Point{...}); pointsMu.Unlock()
ButtonAppend ==
    /\ points' = StoreAppend(ButtonPoint)
    /\ appendN' = appendN + 1
    /\ zdirty' = TRUE
    /\ wlog' = Logged("append", appendN + 1, zeroPc # -1)

\* now.Sub(t), saturating for the zero time
Since(t) == IF t = ZeroTime THEN -ZeroTime ELSE now - t

\* a debounce that asks for more than the interval
SimpleAcceptsStrict(type) ==
    /\ type = "FALLING"
    /\ Since(lastBtnPressTime) > btnDebounceMsSimple

\* if evt.Type != gpiocdev.LineEventFallingEdge { return };
\* if now.Sub(lastBtnPressTime) < time.Millisecond*btnDebounceMs { return }
SimpleAccepts(type) ==
    /\ type = "FALLING"
    /\ ~(Since(lastBtnPressTime) < btnDebounceMsSimple)

BtnHandleSimple ==
    /\ variant = "simple"
    /\ btnQueue # << >>
    /\ LET type == Head(btnQueue) IN
        /\ btnQueue' = Tail(btnQueue)
        /\ lastBtn' = [type |-> type, since |-> Since(lastBtnPressTime), edgeCount |-> 0,
                       level |-> btnLevel, prevPin |-> -1]
        /\ IF SimpleAccepts(type)
           THEN /\ lastBtnPressTime' = now
                /\ ButtonAppend
                /\ pressCaps' = pressCaps + 1
           ELSE UNCHANGED <<lastBtnPressTime, points, appendN, zdirty, wlog, pressCaps>>
    /\ BtnFrame
    /\ UNCHANGED <<lastBtnTriggerTime, lastPinState, recentRisingEdges,
                   btnLevel, btnPhase, bounceN, pressN, burst, now>>

----------------------------------------------------------------------------
(* The button handler, robust revision.  A falling edge is logged and      *)
(* dropped.  A rising edge is entered in the 100 ms window; it is rejected *)
(* within 300 ms of the last trigger; otherwise the line is read again     *)
(* and, if it is high, the edge is a trigger when the window holds two     *)
(* edges or more, or the recorded level was low, or more than 500 ms have  *)
(* passed since the last trigger.                                          *)

\* for _, t := range recentRisingEdges { if t.After(cutoff) {...} }; append(validEdges, now)
After(t, cutoff) == t > cutoff
ValidEdgesUnpruned == Append(recentRisingEdges, now)
ValidEdges == Append(SelectSeq(recentRisingEdges, LAMBDA t : After(t, now - RisingWindowMs)), now)

\* the condition of the accept branch without its third disjunct
AcceptsNoFallback(edgeCount, wasLow, since) == edgeCount >= 2 \/ wasLow

\* the condition of the accept branch without its second disjunct
AcceptsNoPressSeen(edgeCount, wasLow, since) == edgeCount >= 2 \/ since > FallbackMs

\* edgeCount >= 2 || wasLow || timeSinceLastTrigger > 500*time.Millisecond
Accepts(edgeCount, wasLow, since) == edgeCount >= 2 \/ wasLow \/ since > FallbackMs

\* the debounce floor with a floor of 0 ms
DebouncedNever(since) == since < 0

\* the debounce floor with the 50 ms of the simple revision
DebouncedShort(since) == since < btnDebounceMsSimple

\* timeSinceLastTrigger < time.Duration(btnDebounceMs)*time.Millisecond
Debounced(since) == since < btnDebounceMs

\* a trigger that leaves the window as it is
WindowKeptAfterTrigger == ValidEdges

\* recentRisingEdges = []time.Time{}: the window after a trigger
WindowAfterTrigger == << >>

\* a level check that lets every level pass
ReleasedAnyLevel(value) == value \in {0, 1}

\* if values[0] == 1: the line reads the released level
Released(value) == value = 1

\* what the observer of bursts records for a rising edge: the edge belongs to
\* a burst as long as the line read high (and every read succeeded) and it
\* came within the window of the first edge of the burst; the observer may
\* start to follow a new burst at any such edge
BurstAfter(qualifies, restart, accepted) ==
    IF ~qualifies THEN NoBurst
    ELSE IF burst.len > 0 /\ now - burst.first < RisingWindowMs /\ ~restart
    THEN [burst EXCEPT !.len = @ + 1, !.last = now,
                       !.caps = @ + (IF accepted THEN 1 ELSE 0)]
    ELSE [len |-> 1, first |-> now, last |-> now, t0 |-> lastBtnTriggerTime,
          caps |-> IF accepted THEN 1 ELSE 0]

BtnHandleRobust ==
    /\ variant = "robust"
    /\ btnQueue # << >>
    /\ btnQueue' = Tail(btnQueue)
    /\ \E ok1, ok2, restart \in BOOLEAN :
        LET type         == Head(btnQueue)
            currentState == IF ok1 THEN btnLevel ELSE -1
            edgeCount    == Len(ValidEdges)
            since        == Since(lastBtnTriggerTime)
            wasLow       == lastPinState = 0
            verified     == ~Debounced(since) /\ ok2 /\ Released(btnLevel)
            accepted     == verified /\ Accepts(edgeCount, wasLow, since)
            qualifies    == ok1 /\ btnLevel = 1 /\ (Debounced(since) \/ ok2)
        IN
        /\ lastBtn' = [type |-> type, since |-> since,
                       edgeCount |-> IF type = "RISING" THEN edgeCount ELSE 0,
                       level |-> IF type = "RISING" /\ ~Debounced(since) /\ ok2
                                 THEN btnLevel ELSE -1,
                       prevPin |-> lastPinState]
        /\ IF type = "FALLING"
           THEN /\ (ok1 /\ ok2 /\ ~restart)
                /\ UNCHANGED <<btnVars, points, appendN, zdirty, wlog, pressCaps, burst>>
           ELSE /\ (Debounced(since) => ok2)
                /\ (burst.len = 0 \/ ~(now - burst.first < RisingWindowMs) \/ ~qualifies => ~restart)
                /\ burst' = BurstAfter(qualifies, restart, accepted)
                /\ IF Debounced(since)
                   THEN /\ recentRisingEdges' = ValidEdges
                        /\ lastPinState' = currentState
                        /\ UNCHANGED <<lastBtnTriggerTime, points, appendN, zdirty, wlog, pressCaps>>
                   ELSE IF ~ok2
                   THEN /\ recentRisingEdges' = ValidEdges
                        /\ UNCHANGED <<lastBtnTriggerTime, lastPinState, points, appendN, zdirty, wlog, pressCaps>>
                   ELSE IF accepted
                   THEN /\ lastBtnTriggerTime' = now
                        /\ lastPinState' = btnLevel
                        /\ recentRisingEdges' = WindowAfterTrigger
                        /\ ButtonAppend
                        /\ pressCaps' = pressCaps + 1
                   ELSE /\ recentRisingEdges' = ValidEdges
                        /\ lastPinState' = btnLevel
                        /\ UNCHANGED <<lastBtnTriggerTime, points, appendN, zdirty, wlog, pressCaps>>
    /\ BtnFrame
    /\ UNCHANGED <<lastBtnPressTime, btnLevel, btnPhase, bounceN, pressN, now>>

----------------------------------------------------------------------------
(* Specification of the button: the contact, the clock and the handler *)

NextButton ==
    \/ BtnPress
    \/ BtnBounce
    \/ BtnSettle
    \/ BtnRelease
    \/ Tick
    \/ BtnHandleSimple
    \/ BtnHandleRobust

\* the encoders stand still, with their lines low
InitButton == InitCommon /\ pins = [a \in Axes |-> 0]

SpecButton == InitButton /\ [][NextButton]_vars

----------------------------------------------------------------------------
(* The RPM sampler: every 100 ms it treats the axes in turn, each under    *)
(* its own lock.  rpm is kept in thousandths of a revolution per minute.   *)

\* the rate without the factor 60: revolutions per second
RevPerSecOf(deltaCounts, elapsedMs) ==
    Sgn(deltaCounts) * ((Abs(deltaCounts) * 25000) \div (elapsedMs * 60))

\* a rate that takes every sample to be one period of the ticker long
RpmOfOnePeriod(deltaCounts, elapsedMs) ==
    Sgn(deltaCounts) * ((Abs(deltaCounts) * 25000) \div SamplePeriodMs)

\* (float64(deltaCounts) / countsPerRev) * (60.0 / elapsedSec), elapsed in ms
RpmOf(deltaCounts, elapsedMs) ==
    Sgn(deltaCounts) * ((Abs(deltaCounts) * 25000) \div elapsedMs)

\* a sampler that reports no movement when no time has elapsed
NewRpmResetWithoutElapse(old, deltaCounts, elapsedMs) ==
    IF elapsedMs > 0 THEN RpmOf(deltaCounts, elapsedMs) ELSE 0

\* if elapsedSec > 0 { enc.rpm = ... }: the rpm after the sample
NewRpm(old, deltaCounts, elapsedMs) ==
    IF elapsedMs > 0 THEN RpmOf(deltaCounts, elapsedMs) ELSE old

\* steps of the uniform spin due by time t: 2400 steps spread over one second
\* from spinStart, step k at spinStart + k * (1000 / 2400) ms
Due(t) ==
    IF spinStart = -1 \/ t <= spinStart THEN 0
    ELSE IF t >= spinStart + SpinMs THEN countsPerRev
    ELSE ((t - spinStart) * countsPerRev) \div SpinMs

\* every step due by now has been made and counted
Settled ==
    /\ RotTotal = Due(now)
    /\ \A a \in Axes : pending[a] = 0 /\ hpc[a] = "idle"

SmpFrame ==
    /\ zq' = "n"
    /\ UNCHANGED <<obs2, btnAll, histAll, variant, fault, points, edgeVars, httpVars, decObs, storeObs, lastOp>>

\* the spin begins
SpinBegin ==
    /\ spinStart = -1
    /\ now <= MaxStartMs
    /\ spinStart' = now
    /\ SmpFrame
    /\ UNCHANGED <<lkVars, encVars, now, tickN, spc, smpFrom, smpN, edgeSince>>

\* a millisecond passes: the sampler's pass over the axes is short against
\* it, and the sampler wakes no more than MaxLateMs after its tick is due
Millisecond ==
    /\ now < MaxRunMs
    /\ Settled
    /\ spinStart # -1 \/ now < MaxStartMs
    /\ spc = -1
    /\ now + 1 <= SamplePeriodMs * (tickN + 1) + MaxLateMs
    /\ now' = now + 1
    /\ SmpFrame
    /\ UNCHANGED <<lkVars, encVars, tickN, spc, spinStart, smpFrom, smpN, edgeSince>>

\* for range ticker.C
SamplerWake ==
    /\ spc = -1
    /\ now >= SamplePeriodMs * (tickN + 1)
    /\ tickN' = tickN + 1
    /\ spc' = 0
    /\ SmpFrame
    /\ UNCHANGED <<lkVars, encVars, now, spinStart, smpFrom, smpN, edgeSince>>

\* where the sampler goes after the last axis: back to the ticker, or, in the
\* revisions that record a history, on to the append of the data point
AfterAxes == IF variant \in HistoryVariants THEN NumAxes ELSE -1

\* deltaCounts := currentCount - enc.lastReadCount; ...; enc.lastReadTime = now:
\* the section the sampler locks, for the axis spc, after it has set its
\* locals now (t) and currentCount
SampleBody(currentCount, t) ==
    /\ spc \in Axes
    /\ LET deltaCounts  == currentCount - lastReadCount[spc]
           elapsedMs    == t - lastReadTime[spc]
       IN
        /\ rpm' = [rpm EXCEPT ![spc] = NewRpm(@, deltaCounts, elapsedMs)]
        /\ lastReadCount' = [lastReadCount EXCEPT ![spc] = currentCount]
        /\ lastReadTime' = [lastReadTime EXCEPT ![spc] = t]
        /\ smpFrom' = [smpFrom EXCEPT ![spc] = lastReadTime[spc]]
        /\ smpN' = [smpN EXCEPT ![spc] = @ + 1]
        /\ edgeSince' = [edgeSince EXCEPT ![spc] = FALSE]
    /\ spc' = IF spc = NumAxes - 1 THEN AfterAxes ELSE spc + 1
    /\ SmpFrame
    /\ UNCHANGED <<counter, lastState, lines, now, tickN, spinStart>>

\* enc.mu.Lock(); now := time.Now(); currentCount := enc.counter; ...; enc.mu.Unlock()
SamplerAxis ==
    /\ spc \in Axes
    /\ CanLock(spc)
    /\ SampleBody(counter[spc], now)
    /\ UNCHANGED lkVars

\* enc.mu.Lock(); now := time.Now(); currentCount := enc.counter
SamplerLock ==
    /\ spc \in Axes
    /\ "sampler" \notin inCS[spc]
    /\ CanLock(spc)
    /\ inCS' = [inCS EXCEPT ![spc] = @ \cup {"sampler"}]
    /\ sLocals' = [currentCount |-> counter[spc], now |-> now]
    /\ SmpFrame
    /\ UNCHANGED <<pmu, encVars, now, tickN, spc, spinStart, smpFrom, smpN, edgeSince>>

\* deltaCounts := ...; enc.lastReadTime = now; enc.mu.Unlock()
SamplerUnlock ==
    /\ spc \in Axes
    /\ "sampler" \in inCS[spc]
    /\ SampleBody(sLocals.currentCount, sLocals.now)
    /\ inCS' = [inCS EXCEPT ![spc] = @ \ {"sampler"}]
    /\ UNCHANGED <<sLocals, pmu>>

----------------------------------------------------------------------------
(* Specification of the decoder: encoder steps and their handlers *)

NextDecoder ==
    \/ \E a \in Axes : Rotate(a)
    \/ \E a \in Axes : HandlerRead(a)
    \/ \E a \in Axes : HandlerReadFails(a)
    \/ \E a \in Axes : HandlerApply(a)

SpecDecoder == InitCommon /\ [][NextDecoder]_vars

----------------------------------------------------------------------------
(* Specification of one full revolution: one axis turns clockwise, step by  *)
(* step, for as long as the decoder has seen nothing but valid steps, and   *)
(* every read of the lines succeeds.                                        *)

TurnCW(a) ==
    /\ rot[a] < MaxTurn
    /\ \A b \in Axes \ {a} : rot[b] = 0
    /\ clean[a]
    /\ pending[a] < MaxPending
    /\ pins' = [pins EXCEPT ![a] = CWNext(pins[a])]
    /\ pending' = [pending EXCEPT ![a] = @ + 1]
    /\ rot' = [rot EXCEPT ![a] = @ + 1]
    /\ zq' = "n"
    /\ UNCHANGED <<obs2, lkVars, btnAll, histAll, smpAll, variant, fault, encVars, points, now, hpc, sampled, httpVars,
                   prevSample, cwN, ccwN, clean, diagN, startPins, storeObs, lastOp>>

NextRev ==
    \/ \E a \in Axes : TurnCW(a)
    \/ \E a \in Axes : HandlerRead(a)
    \/ \E a \in Axes : HandlerApply(a)

SpecRev == InitCommon /\ [][NextRev]_vars

----------------------------------------------------------------------------
(* Specification of the sampler: one axis is spun clockwise, 2400 steps    *)
(* spread uniformly over one second, every step counted as it is made,     *)
(* while the sampler ticks.                                                *)

\* one step of the spin, when it is due and the step before it is counted
SpinCW(a) ==
    /\ rot[a] < Due(now)
    /\ pending[a] = 0 /\ hpc[a] = "idle"
    /\ TurnCW(a)

\* the sampler treats an axis when every step due has been counted
SpinSample ==
    /\ Settled
    /\ SamplerAxis

NextRpm ==
    \/ SpinBegin
    \/ \E a \in Axes : SpinCW(a)
    \/ \E a \in Axes : HandlerRead(a)
    \/ \E a \in Axes : HandlerApply(a)
    \/ Millisecond
    \/ SamplerWake
    \/ SpinSample

InitRpm == InitCommon /\ pins = [a \in Axes |-> 0]

SpecRpm == InitRpm /\ [][NextRpm]_vars

----------------------------------------------------------------------------
(* Specification of the sampler with free encoders: the axes step either   *)
(* way, the clock advances, the sampler ticks (late, if the clock has run  *)
(* on), and an add-point request reads the axes.                           *)

\* the ticker fires, in a run of MaxTicks ticks
Wake ==
    /\ tickN < MaxTicks
    /\ SamplerWake

\* the clock advances by a period of the ticker, until the last tick of the
\* run is due; a pass of the sampler over the axes is short against it
Period ==
    /\ now < SamplePeriodMs * MaxTicks
    /\ spc = -1
    /\ now' = now + SamplePeriodMs
    /\ SmpFrame
    /\ UNCHANGED <<lkVars, encVars, tickN, spc, spinStart, smpFrom, smpN, edgeSince>>

\* the one moving axis steps, in a run of MaxSteps steps
Step(a) ==
    /\ RotTotal < MaxSteps
    /\ \A b \in Axes \ {a} : rot[b] = 0
    /\ Rotate(a)

\* the one add-point request of the run
OneCapture(c) ==
    /\ reqN = 0
    /\ CaptureStart(c)

NextSampler ==
    \/ \E a \in Axes : Step(a)
    \/ \E a \in Axes : HandlerRead(a)
    \/ \E a \in Axes : HandlerApply(a)
    \/ Period
    \/ Wake
    \/ SamplerAxis
    \/ \E c \in Clients : OneCapture(c)
    \/ \E c \in Clients : CaptureRead(c)
    \/ \E c \in Clients : CaptureAppend(c)

\* the encoder handler, the sampler and getEncoderData are the same in both
\* revisions
InitSampler == InitCommon /\ pins = [a \in Axes |-> 0] /\ variant = "robust"

SpecSampler == InitSampler /\ [][NextSampler]_vars

----------------------------------------------------------------------------
(* Specification of the point store: encoder steps and their handlers, and  *)
(* the zero, add-point, count and save requests, interleaved at their       *)
(* locked sections.                                                         *)

NextStore ==
    \/ \E a \in Axes : Rotate(a)
    \/ \E a \in Axes : HandlerRead(a)
    \/ \E a \in Axes : HandlerApply(a)
    \/ ZeroStart
    \/ ZeroAxis
    \/ ZeroPoints
    \/ \E c \in Clients : CaptureStart(c)
    \/ \E c \in Clients : CaptureRead(c)
    \/ \E c \in Clients : CaptureAppend(c)
    \/ Count
    \/ Save

\* the store is explored with the lines low at start
InitStore == InitCommon /\ pins = [a \in Axes |-> 0]

SpecStore == InitStore /\ [][NextStore]_vars

----------------------------------------------------------------------------
(* Specification of the encoder locks: the edge handler and the sampler    *)
(* are split where they take and release enc.mu, so that what one of them   *)
(* does while the other is about to enter is a step of its own; zero takes  *)
(* the same lock for its one assignment.                                    *)

\* the one zero request of the run
OneZero ==
    /\ zeroN = 0
    /\ ZeroStart

NextLock ==
    \/ \E a \in Axes : Step(a)
    \/ \E a \in Axes : HandlerRead(a)
    \/ \E a \in Axes : HandlerLock(a)
    \/ \E a \in Axes : HandlerUnlock(a)
    \/ Period
    \/ Wake
    \/ SamplerLock
    \/ SamplerUnlock
    \/ OneZero
    \/ ZeroAxis
    \/ ZeroPoints

SpecLock == InitSampler /\ [][NextLock]_vars

----------------------------------------------------------------------------
(* Specification of the edge handlers of the three axes, split where they  *)
(* take and release the lock of their encoder, next to one add-point       *)
(* request that fills the store.                                           *)

\* any axis steps, in a run of MaxSteps steps
StepAny(a) ==
    /\ RotTotal < MaxSteps
    /\ Rotate(a)

NextHandlers ==
    \/ \E a \in Axes : StepAny(a)
    \/ \E a \in Axes : HandlerRead(a)
    \/ \E a \in Axes : HandlerLock(a)
    \/ \E a \in Axes : HandlerUnlock(a)
    \/ \E c \in Clients : OneCapture(c)
    \/ \E c \in Clients : CaptureRead(c)
    \/ \E c \in Clients : CaptureAppend(c)

SpecHandlers == InitSampler /\ [][NextHandlers]_vars

----------------------------------------------------------------------------
(* Specification of the writers of an axis: the edge handler, the sampler, *)
(* zero and the reads of an add-point request, each at its locked section. *)

NextAxis ==
    \/ \E a \in Axes : Step(a)
    \/ \E a \in Axes : HandlerRead(a)
    \/ \E a \in Axes : HandlerApply(a)
    \/ Period
    \/ Wake
    \/ SamplerAxis
    \/ OneZero
    \/ ZeroAxis
    \/ ZeroPoints
    \/ \E c \in Clients : OneCapture(c)
    \/ \E c \in Clients : CaptureRead(c)
    \/ \E c \in Clients : CaptureAppend(c)

SpecAxis == InitSampler /\ [][NextAxis]_vars

----------------------------------------------------------------------------
(* C1: on every axis, as long as every processed edge sampled a pin state   *)
(* one bit away from the previously sampled one, the counter equals the     *)
(* number of clockwise steps minus the number of counter-clockwise steps    *)
(* processed since the counter was last 0 by construction or by zero.       *)
(* The steps are classified by the Gray-code cycle, not by the table.       *)
C1_NetStepCount ==
    \A a \in Axes : clean[a] => counter[a] = cwN[a] - ccwN[a]

\* an axis has processed valid steps in both directions
C1_Witness ==
    \E a \in Axes : clean[a] /\ cwN[a] >= 2 /\ ccwN[a] >= 1 /\ hpc[a] = "idle"

(* C2: a handled edge whose sample is the diagonal of the stored last pin   *)
(* state (00<->11, 01<->10) leaves the counter of its axis unchanged and    *)
(* does not panic.                                                          *)
C2_DiagonalIgnored ==
    [][\A a \in Axes :
          (hpc[a] = "apply" /\ hpc'[a] = "idle" /\ Diagonal(lastState[a], sampled[a]))
             => (counter'[a] = counter[a] /\ fault' = FALSE)]_vars

\* a diagonal sample has been processed
C2_Witness ==
    \E a \in Axes : diagN[a] > 0 /\ hpc[a] = "idle"

(* C3: starting from counter 0, once an axis has processed 2400 consecutive *)
(* valid clockwise steps (and no other), its counter is 2400 and the        *)
(* distance reported for it is exactly one wheel circumference.             *)
C3_FullRevolution ==
    \A a \in Axes :
        (clean[a] /\ cwN[a] = countsPerRev /\ ccwN[a] = 0)
           => (counter[a] = 2400 /\ Distance(counter[a]) = wheelCircumference)

\* an axis has processed a full revolution of valid clockwise steps
C3_Witness ==
    \E a \in Axes : clean[a] /\ cwN[a] = countsPerRev /\ ccwN[a] = 0 /\ rot[a] = countsPerRev

(* C4: zero is idempotent.  Once a zero request has run from start to end  *)
(* with no other step in between, every step of a zero request that        *)
(* follows it directly changes nothing: counters, last pin states, sampler *)
(* bookkeeping and the point store stay as the first zero left them, all   *)
(* counters 0 and the store empty.                                         *)
ProgState == <<counter, lastState, lastReadTime, lastReadCount, rpm, points, fault>>

C4_ZeroIdempotent ==
    [][(zq = "done" /\ zq' = "done")
          => /\ ProgState' = ProgState
             /\ \A a \in Axes : counter'[a] = 0
             /\ points' = << >>]_vars

\* a second zero has completed directly after a first one
C4_Witness ==
    zq = "done" /\ zeroN >= 2 /\ zeroPc = -1 /\ RotTotal > 0

(* C7: a count request served directly after a successful save (no capture, *)
(* zero or other operation completed in between) returns 0.                 *)
C7_CountAfterSaveIsZero ==
    [][(lastOp = "save" /\ saveStatus = 200 /\ lastOp' = "count") => countResp' = 0]_vars

(* C8: at every successful save, each point that was in the store is        *)
(* afterwards in exactly one of the exported sequence and the store.        *)
Ids(seq) == {seq[i].id : i \in 1 .. Len(seq)}

C8_ExportedOrKept ==
    [][(saveN' = saveN + 1 /\ saveStatus' = 200)
          => \A i \in Ids(points) : (i \in Ids(saveData')) # (i \in Ids(points'))]_vars

----------------------------------------------------------------------------
(* C5: in the robust revision, a burst of two or more rising edges that    *)
(* all come within the 100 ms window, the line reading high at each of     *)
(* them, appends at most one point; it appends exactly one when its last   *)
(* edge comes 300 ms or more after the trigger that was accepted before    *)
(* the burst (or no trigger was accepted before), and none when the whole  *)
(* burst lies within 300 ms of that trigger.                               *)

BurstSince == IF burst.t0 = ZeroTime THEN -ZeroTime ELSE burst.last - burst.t0

C5_BurstOncePastFloor ==
    (variant = "robust" /\ burst.len >= 2) =>
        burst.caps = (IF BurstSince >= btnDebounceMs THEN 1 ELSE 0)

\* a burst of two edges, after an earlier trigger, that appended its one point
C5_Witness ==
    /\ variant = "robust"
    /\ burst.len >= 2
    /\ burst.t0 # ZeroTime
    /\ burst.caps = 1
    /\ Len(points) >= 2

\* C5 as stated: every such burst appends exactly one point
C5_BurstExactlyOnce ==
    (variant = "robust" /\ burst.len >= 2) => burst.caps = 1

----------------------------------------------------------------------------
(* C6: in the robust revision, a rising edge handled more than 500 ms      *)
(* after the last accepted trigger, alone in the window, the line reading  *)
(* high, is accepted: one point is appended and the edge becomes the last  *)
(* trigger, whatever level was recorded before.  It holds in every         *)
(* reachable state, so no state rejects such edges.                        *)

C6_FallbackAccepts ==
    [][(/\ variant = "robust"
        /\ Len(btnQueue') = Len(btnQueue) - 1
        /\ lastBtn'.type = "RISING"
        /\ lastBtn'.since > FallbackMs
        /\ lastBtn'.edgeCount = 1
        /\ lastBtn'.level = 1)
       => (/\ Len(points') = Len(points) + 1
           /\ lastBtnTriggerTime' = now
           /\ lastPinState' = 1)]_vars

\* such an edge, after an earlier trigger, with the high level recorded
\* before: only the fallback accepts it
C6_Witness ==
    /\ variant = "robust"
    /\ lastBtn.type = "RISING"
    /\ lastBtn.since > FallbackMs
    /\ lastBtn.since < -ZeroTime
    /\ lastBtn.edgeCount = 1
    /\ lastBtn.level = 1
    /\ lastBtn.prevPin = 1
    /\ lastBtnTriggerTime = now
    /\ Len(points) >= 2

----------------------------------------------------------------------------
(* C9: when an axis receives 2400 clockwise increments spread uniformly    *)
(* over one second, every sample of that axis whose interval (from the     *)
(* sample before it) lies inside that second sets rpm to 60, up to the     *)
(* one count by which the increments of an interval are rounded (25/e rpm  *)
(* for an interval of e ms) and the last digit kept; and to 60 exactly     *)
(* when both ends of the interval fall on an increment.                    *)

InsideSpin(a) ==
    /\ smpN[a] > 0
    /\ rot[a] > 0
    /\ spinStart # -1
    /\ smpFrom[a] >= spinStart
    /\ lastReadTime[a] <= spinStart + SpinMs
    /\ lastReadTime[a] > smpFrom[a]

OnIncrement(t) == ((t - spinStart) * countsPerRev) % SpinMs = 0

C9_RpmSixty ==
    \A a \in Axes : InsideSpin(a) =>
        /\ Abs(rpm[a] - 60000) <= 25000 \div (lastReadTime[a] - smpFrom[a]) + 1
        /\ (OnIncrement(smpFrom[a]) /\ OnIncrement(lastReadTime[a])) => rpm[a] = 60000

\* the last sample inside the second, its interval rounded by a count
C9_Witness ==
    \E a \in Axes :
        /\ InsideSpin(a)
        /\ tickN = SpinMs \div SamplePeriodMs
        /\ spc = -1
        /\ rpm[a] # 60000
        /\ counter[a] > 2300

----------------------------------------------------------------------------
(* C10: one physical press (the contact closes, possibly bouncing, is      *)
(* held, and opens, possibly bouncing) appends at most one point.          *)

C10_OnePointPerPress == pressCaps <= 1

----------------------------------------------------------------------------
(* C11: when a zero has completed and, since it began, no edge was counted *)
(* and no point appended, the three counters are 0 and the store is empty. *)

C11_ZeroClears ==
    (zeroPc = -1 /\ lastOp = "zero" /\ ~zdirty) =>
        /\ \A a \in Axes : counter[a] = 0
        /\ points = << >>

\* a first zero that found counted steps and a stored point
C11_Witness ==
    /\ zeroPc = -1 /\ lastOp = "zero" /\ ~zdirty
    /\ zeroN = 1
    /\ appendN >= 1
    /\ \E a \in Axes : rot[a] >= 2 /\ pending[a] = 0 /\ hpc[a] = "idle"

----------------------------------------------------------------------------
(* C12: every capture that finishes has appended exactly one point, at the *)
(* end of the store, the points stored before staying in front of it in    *)
(* the same order; the stored points are always in the order of their      *)
(* capture, and no step changes a point that stays stored.                 *)

InCaptureOrder == \A i, j \in 1 .. Len(points) : i < j => points[i].id < points[j].id

AppendsAtEnd ==
    /\ Len(points') = Len(points) + 1
    /\ SubSeq(points', 1, Len(points)) = points
    /\ points'[Len(points')].id = appendN'

C12_AppendOnly ==
    /\ []InCaptureOrder
    /\ [][/\ \A c \in Clients : (capPc[c] = NumAxes /\ capPc'[c] = -1) => appendN' = appendN + 1
          /\ appendN' = appendN + 1 => AppendsAtEnd
          /\ \A i \in 1 .. Len(points) : \A j \in 1 .. Len(points') :
                points'[j].id = points[i].id => points'[j] = points[i]]_vars

\* a capture appended behind two points already stored
C12_Witness ==
    /\ lastOp = "capture"
    /\ Len(points) >= 3
    /\ points[Len(points)].id = appendN
    /\ points[1].id = 1

----------------------------------------------------------------------------
(* C13: the writes of the point store are totally ordered: after a clear   *)
(* the store is empty, and after an append that follows a clear it holds   *)
(* exactly the appended point, also when the capture and the zero were in  *)
(* flight together; the count returned is the length of the store.         *)

LastWrite == wlog[Len(wlog)]

C13_AppendClearOrdered ==
    /\ [](wlog # << >> /\ LastWrite.op = "clear" => points = << >>)
    /\ []((Len(wlog) = 2 /\ wlog[1].op = "clear" /\ LastWrite.op = "append")
            => (Len(points) = 1 /\ points[1].id = LastWrite.id))
    /\ [][appendN' = appendN + 1 => points' = Append(points, points'[Len(points')])]_vars
    /\ [][lastOp' = "count" /\ reqN' = reqN + 1 => countResp' = Len(points)]_vars

\* clear first: the zero emptied the store while the capture was in flight,
\* and the capture then appended its point to the empty store
C13_Witness ==
    /\ Len(wlog) = 2
    /\ wlog[1].op = "clear" /\ wlog[1].over
    /\ wlog[2].op = "append"
    /\ appendN >= 2
    /\ Len(points) = 1

\* append first: the capture appended while the zero was in flight, and the
\* zero then emptied the store
C13_WitnessAppendFirst ==
    /\ Len(wlog) = 2
    /\ wlog[1].op = "append" /\ wlog[1].over
    /\ wlog[2].op = "clear"
    /\ points = << >>

----------------------------------------------------------------------------
(* C14: the point a capture appends is {x, y, z} with x, y and z the       *)
(* distances of counter values that the X, the Y and the Z axis held       *)
(* between the start of the capture and the append.                        *)

C14_PointFromHeldCounters ==
    [][\A c \in Clients : (capPc[c] = NumAxes /\ capPc'[c] = -1) =>
          \E x \in capSeen[c][0], y \in capSeen[c][1], z \in capSeen[c][2] :
              points'[Len(points')] =
                  [X |-> Distance(x), Y |-> Distance(y), Z |-> Distance(z), id |-> appendN']]_vars

\* a finished capture during which the X axis moved on after it was read while
\* the Y axis had moved before it was read: the point holds an X that is no
\* longer current
C14_Witness ==
    \E c \in Clients :
        /\ capPc[c] = -1
        /\ lastOp = "capture"
        /\ points # << >>
        /\ points[Len(points)].X # 0
        /\ points[Len(points)].X # Distance(counter[0])
        /\ points[Len(points)].Y # 0
        /\ points[Len(points)].X # points[Len(points)].Y

(***************************************************************************)
(* C15                                                                     *)
(***************************************************************************)

\* C15: reading the encoder values for a response changes nothing of an
\* axis and nothing of the store; the count and the rpm returned for an axis
\* are the values the axis holds at the one moment of the read, and the
\* distance returned is derived from exactly the count returned.
C15_ReadIsPureAndConsistent ==
    [][\A c \in Clients :
        (capPc[c] \in Axes /\ capPc'[c] = capPc[c] + 1) =>
            LET a == capPc[c]
                v == capData'[c][a + 1]
            IN
                /\ encVars' = encVars
                /\ points' = points
                /\ v.Count = counter[a]
                /\ v.RPM = rpm[a]
                /\ v.Distance = Distance(v.Count)]_vars

\* a read has returned a moving axis: its rpm is not zero, and its count is
\* no more the count of the last sample
C15_Witness ==
    \E c \in Clients :
        /\ capPc[c] = 1
        /\ capData[c][1].RPM # 0
        /\ capData[c][1].Count # 0
        /\ capData[c][1].Count # lastReadCount[0]
        /\ capData[c][1].Count = counter[0]

(***************************************************************************)
(* C16                                                                     *)
(***************************************************************************)

\* the locked section of the edge handler of axis a runs in this step
HandlerActs(a) == hpc[a] = "apply" /\ hpc'[a] = "idle"

\* C16: every run of the edge handler changes the counter of its axis by
\* -1, 0 or +1, and the counter of an axis never changes otherwise, except
\* that zero sets it to 0, from any value.
C16_UnitSteps ==
    [][\A a \in Axes :
        /\ HandlerActs(a) => counter'[a] - counter[a] \in {-1, 0, 1}
        /\ counter'[a] # counter[a] =>
              \/ HandlerActs(a)
              \/ zeroPc = a /\ counter'[a] = 0]_vars

\* the handler has counted X up to 2 in two runs, a request has read that
\* count, and a zero has then taken the counter from 2 to 0 in one step
C16_Witness ==
    /\ zeroPc = 1
    /\ counter[0] = 0
    /\ \E c \in Clients : capPc[c] >= 1 /\ capData[c][1].Count = 2
    /\ rot[0] = 2
    /\ pending[0] = 0 /\ hpc[0] = "idle"

(***************************************************************************)
(* C17                                                                     *)
(***************************************************************************)

\* C17: after every run of the edge handler whose read of the lines
\* succeeded, the stored last pin state of the axis is the state the
\* handler sampled, also when the transition counted for nothing.
C17_LastStateIsSample ==
    [][\A a \in Axes : HandlerActs(a) => lastState'[a] = sampled[a]]_vars

\* a diagonal sample has been processed without a count, and the stored
\* last state has moved to it
C17_Witness ==
    \E a \in Axes :
        /\ diagN[a] = 1
        /\ counter[a] = 0
        /\ cwN[a] = 0 /\ ccwN[a] = 0
        /\ lastState[a] = prevSample[a]
        /\ Diagonal(lastState[a], 0)
        /\ hpc[a] = "idle"

(***************************************************************************)
(* C18                                                                     *)
(***************************************************************************)

\* the fields of axis a that enc.mu guards
AxisFields(a) == <<counter[a], lastState[a], lastReadTime[a], lastReadCount[a], rpm[a]>>

\* at most one of the handler and the sampler is inside a section of an axis
OneInside == \A a \in Axes : Cardinality(inCS[a]) <= 1

\* while somebody stays inside a section of axis a, nothing of the axis changes
NothingWhileInside ==
    \A a \in Axes :
        (inCS[a] # {} /\ inCS'[a] = inCS[a]) => AxisFields(a)' = AxisFields(a)

\* the sampler leaves its section having taken the delta from the counter
\* the axis holds, and the handler leaves its section having counted from it
SectionsFromHeldCounter ==
    \A a \in Axes :
        /\ ("sampler" \in inCS[a] /\ "sampler" \notin inCS'[a]) =>
              /\ lastReadCount'[a] = counter[a]
              /\ counter'[a] = counter[a]
              /\ sLocals.now - lastReadTime[a] > 0 =>
                    rpm'[a] = RpmOf(counter[a] - lastReadCount[a], sLocals.now - lastReadTime[a])
        /\ ("handler" \in inCS[a] /\ "handler" \notin inCS'[a]) =>
              /\ counter'[a] - counter[a] \in {-1, 0, 1}
              /\ lastReadCount'[a] = lastReadCount[a]
              /\ rpm'[a] = rpm[a]

\* C18: the edge handler's section and the sampler's section of one axis
\* never interleave: each is atomic with respect to the other and to zero,
\* and the sampler's delta is taken from a counter value the axis held.
C18_SectionsAtomic ==
    []OneInside /\ [][NothingWhileInside /\ SectionsFromHeldCounter]_vars

\* the sampler is inside the section of a moving axis while the handler of
\* the axis and zero wait for the lock
C18_Witness ==
    \E a \in Axes :
        /\ inCS[a] = {"sampler"}
        /\ hpc[a] = "apply"
        /\ zeroPc = a
        /\ counter[a] # 0
        /\ sLocals.currentCount = counter[a]

(***************************************************************************)
(* C19, C20                                                                *)
(***************************************************************************)

\* the sampler's section of axis a runs in this step
SamplerActs(a) == smpN'[a] = smpN[a] + 1

\* ((delta / 2400) * (60 / elapsed)) in 1/1000 rpm for an elapsed time in ms,
\* truncated towards zero
RateOf(delta, elapsedMs) ==
    Sgn(delta) * ((Abs(delta) * 60 * 1000 * 1000) \div (countsPerRev * elapsedMs))

\* C19: at every sampler tick with elapsed > 0, the rpm of each axis is set
\* to ((counter - last sample count) / 2400) * (60 / elapsed); after the
\* tick the last sample count is the counter read in the tick and the last
\* sample time is the time of the tick.
C19_RpmFromDeltaAndElapsed ==
    [][\A a \in Axes :
        (SamplerActs(a) /\ now - lastReadTime[a] > 0) =>
            /\ rpm'[a] = RateOf(counter[a] - lastReadCount[a], now - lastReadTime[a])
            /\ lastReadCount'[a] = counter[a]
            /\ lastReadTime'[a] = now]_vars

\* an axis that moved backwards has been sampled over two periods: its rpm
\* is negative and is the rate of its counter over 200 ms
C19_Witness ==
    \E a \in Axes :
        /\ smpN[a] = 1
        /\ lastReadTime[a] - smpFrom[a] = 2 * SamplePeriodMs
        /\ lastReadCount[a] < 0
        /\ rpm[a] < 0
        /\ rpm[a] = RateOf(lastReadCount[a], 2 * SamplePeriodMs)

\* C20: at a sampler tick where no time has elapsed since the previous
\* sample of an axis, the rpm of the axis keeps its value, and the last
\* sample count and time are still overwritten with the counter and the
\* time of the tick.
C20_NoElapseKeepsRpm ==
    [][\A a \in Axes :
        (SamplerActs(a) /\ now - lastReadTime[a] <= 0) =>
            /\ rpm'[a] = rpm[a]
            /\ lastReadCount'[a] = counter[a]
            /\ lastReadTime'[a] = now]_vars

\* two samples of an axis at the same reading of the clock: the first found
\* one step in 200 ms, the axis stepped again, and the second kept the rpm
\* and took the new count
C20_Witness ==
    \E a \in Axes :
        /\ smpN[a] = 2
        /\ smpFrom[a] = lastReadTime[a]
        /\ rpm[a] = RateOf(1, 2 * SamplePeriodMs)
        /\ lastReadCount[a] = 2

(***************************************************************************)
(* C21                                                                     *)
(***************************************************************************)

\* what the sampler keeps of axis a
SampleFields(a) == <<lastReadCount[a], lastReadTime[a], rpm[a]>>

\* C21: after start-up the last sample count, the last sample time and the
\* rpm of an axis are modified by the sampler only: the edge handler, zero,
\* and the reads of a capture leave them unchanged.
C21_SampleFieldsOnlyBySampler ==
    [][\A a \in Axes :
        /\ SampleFields(a)' # SampleFields(a) => SamplerActs(a)
        /\ HandlerActs(a) => SampleFields(a)' = SampleFields(a)
        /\ (zeroPc = a /\ zeroPc' = a + 1) => SampleFields(a)' = SampleFields(a)
        /\ (\E c \in Clients : capPc[c] = a /\ capPc'[c] = a + 1)
              => SampleFields(a)' = SampleFields(a)]_vars

\* an axis was sampled while it moved, and zero has then reset its counter:
\* the count of the last sample and the rpm are still those of the sample,
\* and a capture has read the axis since
C21_Witness ==
    \E a \in Axes :
        /\ smpN[a] >= 1
        /\ zeroPc > a
        /\ counter[a] = 0
        /\ lastReadCount[a] # 0
        /\ rpm[a] # 0
        /\ \E c \in Clients : capPc[c] > a /\ capData[c][a + 1].RPM = rpm[a]
                                /\ capData[c][a + 1].Count = 0

(***************************************************************************)
(* C22                                                                     *)
(***************************************************************************)

\* a step of the zero request
ZeroActs == zeroPc' # zeroPc

\* C22: zero resets the counter of each axis and nothing else of it: the
\* stored last pin state of every axis is unchanged by zero, so that the
\* first edge after a zero is decoded against the pin state sampled by the
\* last edge before the zero.
C22_ZeroKeepsLastState ==
    /\ [](\A a \in Axes : lastState[a] = prevSample[a])
    /\ [][/\ ZeroActs => lastState' = lastState
          /\ \A a \in Axes :
                /\ (zeroPc = a /\ zeroPc' = a + 1) => counter'[a] = 0
                /\ HandlerActs(a) =>
                      counter'[a] = counter[a]
                          + (IF sampled[a] = CWNext(prevSample[a]) THEN 1
                             ELSE IF sampled[a] = CCWNext(prevSample[a]) THEN -1
                             ELSE 0)]_vars

\* an axis stepped clockwise, a zero was completed, and the axis stepped
\* back: the step was decoded against the state before the zero and counted
\* -1 from 0
C22_Witness ==
    \E a \in Axes :
        /\ zeroN = 1 /\ zeroPc = -1
        /\ rot[a] = 2
        /\ pending[a] = 0 /\ hpc[a] = "idle"
        /\ lastState[a] = 0
        /\ counter[a] = -1

(***************************************************************************)
(* C23                                                                     *)
(***************************************************************************)

\* the handler of axis a can take the lock of its encoder as soon as nobody
\* is inside a section of that axis, whatever happens on the other axes
OwnLockOnly ==
    \A a \in Axes : (hpc[a] = "apply" /\ inCS[a] = {}) => ENABLED HandlerLock(a)

\* the section of the handler of axis a changes the counter and the last
\* pin state of a at most
HandlerWritesOwnAxis ==
    \A a \in Axes :
        ("handler" \in inCS[a] /\ "handler" \notin inCS'[a]) =>
            /\ \A b \in Axes \ {a} : AxisFields(b)' = AxisFields(b)
            /\ SampleFields(a)' = SampleFields(a)
            /\ points' = points

\* C23: an edge event on one axis changes the counter and the last pin
\* state of that axis only: the two other axes and the point store are
\* unchanged, and the handlers of different axes never block each other,
\* each axis having a lock of its own.
C23_EdgeTouchesOwnAxis ==
    []OwnLockOnly /\ [][HandlerWritesOwnAxis]_vars

\* the handlers of two axes are inside their sections at once, with a point
\* in the store
C23_Witness ==
    \E a, b \in Axes :
        /\ a # b
        /\ inCS[a] = {"handler"} /\ inCS[b] = {"handler"}
        /\ points # << >>

(***************************************************************************)
(* C24                                                                     *)
(***************************************************************************)

\* the robust handler handles an edge of the given type in this step
RobustHandles(type) ==
    /\ variant = "robust"
    /\ btnQueue # << >>
    /\ Head(btnQueue) = type
    /\ btnQueue' = Tail(btnQueue)

\* a trigger has been accepted, less than ms before now
TriggerWithin(ms) == lastBtnTriggerTime # ZeroTime /\ now - lastBtnTriggerTime < ms

\* C24: in the robust handler a rising edge that comes less than 300 ms
\* after the last accepted trigger appends no point and leaves the last
\* accepted trigger time unchanged; hence two accepted button captures are
\* never less than 300 ms apart.
C24_FloorRejects ==
    [][/\ (RobustHandles("RISING") /\ TriggerWithin(300)) =>
              /\ points' = points
              /\ lastBtnTriggerTime' = lastBtnTriggerTime
       /\ (variant = "robust" /\ Len(points') > Len(points)) =>
              /\ ~TriggerWithin(300)
              /\ lastBtnTriggerTime' = now]_vars

\* a rising edge that made two in the window, with the line high, was handled
\* within 300 ms of the trigger before it and has added nothing to the one
\* point of that trigger
C24_Witness ==
    /\ variant = "robust"
    /\ lastBtn.type = "RISING"
    /\ lastBtn.edgeCount >= 2
    /\ btnLevel = 1
    /\ TriggerWithin(300)
    /\ lastBtn.since = now - lastBtnTriggerTime
    /\ lastBtn.since > 0
    /\ Len(points) = 1
    /\ btnQueue = << >>

\* two triggers of the robust handler
C24_WitnessTwoTriggers ==
    /\ variant = "robust"
    /\ Len(points) = 2

(***************************************************************************)
(* C25                                                                     *)
(***************************************************************************)

\* C25: in the robust handler a rising edge appends a point only if the
\* level read after the debounce check is the released level (1); if that
\* read returns 0 or fails, no point is appended and the last accepted
\* trigger time is unchanged.
C25_OnlyReleasedLevelAppends ==
    [][RobustHandles("RISING") =>
          /\ Len(points') > Len(points) => lastBtn'.level = 1
          /\ lastBtn'.level # 1 =>
                /\ points' = points
                /\ lastBtnTriggerTime' = lastBtnTriggerTime]_vars

\* a rising edge past the floor, with two edges in the window, whose level
\* read returned 0: nothing was appended
C25_Witness ==
    /\ variant = "robust"
    /\ lastBtn.type = "RISING"
    /\ lastBtn.level = 0
    /\ lastBtn.since >= btnDebounceMs
    /\ lastBtn.edgeCount >= 2
    /\ points = << >>
    /\ lastBtnTriggerTime = ZeroTime

\* a rising edge past the floor, after a recorded low level, whose level
\* read failed: nothing was appended
C25_WitnessReadFails ==
    /\ variant = "robust"
    /\ lastBtn.type = "RISING" /\ lastBtn.level = -1
    /\ lastBtn.since >= btnDebounceMs
    /\ lastBtn.prevPin = 0
    /\ points = << >>
    /\ lastBtnTriggerTime = ZeroTime

(***************************************************************************)
(* C26                                                                     *)
(***************************************************************************)

\* the rising edges of the window, this edge included
EdgesInWindow ==
    1 + Cardinality({i \in 1 .. Len(recentRisingEdges) : now - recentRisingEdges[i] < 100})

\* C26: in the robust handler a rising edge that passed the 300 ms floor
\* and read the released level is accepted if and only if the window, this
\* edge included, holds two rising edges or more, or the recorded pin level
\* is the pressed level (0), or more than 500 ms have passed since the last
\* accepted trigger.
C26_AcceptCondition ==
    [][(RobustHandles("RISING") /\ ~TriggerWithin(300) /\ lastBtn'.level = 1) =>
          (Len(points') = Len(points) + 1
              <=> \/ EdgesInWindow >= 2
                  \/ lastPinState = 0
                  \/ lastBtnTriggerTime = ZeroTime
                  \/ now - lastBtnTriggerTime > 500)]_vars

\* a single rising edge, 300 to 500 ms after the trigger before it, with the
\* line high and no low level recorded, was rejected
C26_Witness ==
    /\ variant = "robust"
    /\ lastBtn.type = "RISING"
    /\ lastBtn.level = 1
    /\ lastBtn.since >= 300 /\ lastBtn.since <= 500
    /\ lastBtn.edgeCount = 1
    /\ lastBtn.prevPin # 0
    /\ Len(points) = 1
    /\ lastBtnTriggerTime = now - lastBtn.since

\* a single rising edge, 300 to 500 ms after the trigger before it, was
\* accepted for the low level recorded before it
C26_WitnessPressSeen ==
    /\ variant = "robust"
    /\ lastBtn.type = "RISING"
    /\ lastBtn.level = 1
    /\ lastBtn.since >= 300 /\ lastBtn.since <= 500
    /\ lastBtn.edgeCount = 1
    /\ lastBtn.prevPin = 0
    /\ Len(points) = 2
    /\ lastBtnTriggerTime = now

(***************************************************************************)
(* C27                                                                     *)
(***************************************************************************)

\* C27: when the robust handler accepts a rising edge, then after the
\* handler the window is empty, the last accepted trigger time is the time
\* of that edge, the recorded pin level is the released level, and the
\* store has grown by exactly one point.
C27_AcceptanceEffects ==
    [][(variant = "robust" /\ (points' # points \/ lastBtnTriggerTime' # lastBtnTriggerTime)) =>
          /\ RobustHandles("RISING")
          /\ recentRisingEdges' = << >>
          /\ lastBtnTriggerTime' = now
          /\ lastPinState' = 1
          /\ Len(points') = Len(points) + 1
          /\ SubSeq(points', 1, Len(points)) = points]_vars

\* the second edge of a bounce was accepted: the window, which held the
\* first, is empty, the trigger time is the time of the edge, the recorded
\* level is 1 and the store holds the one point
C27_Witness ==
    /\ variant = "robust"
    /\ lastBtn.type = "RISING"
    /\ lastBtn.level = 1
    /\ lastBtn.since >= 300
    /\ lastBtn.edgeCount >= 2
    /\ recentRisingEdges = << >>
    /\ lastBtnTriggerTime = now
    /\ lastPinState = 1
    /\ Len(points) = 1

(***************************************************************************)
(* C28                                                                     *)
(***************************************************************************)

\* the entries of the window that are less than 100 ms older than now,
\* followed by now
PrunedWindowWithNow ==
    LET Fresh(t) == now - t < 100
    IN  Append(SelectSeq(recentRisingEdges, Fresh), now)

\* C28: in the robust handler, after any rising edge that is processed and
\* not accepted, the window holds the time of that edge and otherwise only
\* times less than 100 ms older; an edge rejected by the 300 ms floor is
\* recorded all the same, and an edge in the window makes a later edge that
\* passes the floor and reads the released level the second of a bounce.
C28_WindowAfterRejection ==
    [][/\ (RobustHandles("RISING") /\ points' = points) =>
              /\ recentRisingEdges' = PrunedWindowWithNow
              /\ recentRisingEdges'[Len(recentRisingEdges')] = now
              /\ \A i \in 1 .. Len(recentRisingEdges') :
                    now - recentRisingEdges'[i] < 100 /\ recentRisingEdges'[i] <= now
       /\ (/\ RobustHandles("RISING") /\ ~TriggerWithin(300) /\ lastBtn'.level = 1
           /\ \E i \in 1 .. Len(recentRisingEdges) : now - recentRisingEdges[i] < 100)
              => Len(points') = Len(points) + 1]_vars

\* an edge rejected by the floor is in the window, and the next rising edge
\* waits to be handled 300 ms after the trigger with the line high and no
\* low level recorded
C28_Witness ==
    /\ variant = "robust"
    /\ lastBtn.type = "RISING"
    /\ lastBtn.since < 300
    /\ Len(points) = 1
    /\ now - lastBtnTriggerTime = 300
    /\ Len(recentRisingEdges) = 1
    /\ now - recentRisingEdges[1] < 100
    /\ recentRisingEdges[1] - lastBtnTriggerTime < 300
    /\ lastPinState = 1
    /\ btnLevel = 1
    /\ btnQueue = <<"RISING">>

(***************************************************************************)
(* C29                                                                     *)
(***************************************************************************)

\* C29: in the robust handler every button edge that is not a rising edge,
\* a falling edge in particular, sets the recorded pin level to the level
\* read for that edge, so that a press (line low) is recorded before the
\* rising edge that follows is tested against the recorded level.
C29_FallingRecordsLevel ==
    [][RobustHandles("FALLING") => lastPinState' = btnLevel]_vars

(***************************************************************************)
(* C30                                                                     *)
(***************************************************************************)

\* the simple handler handles an edge of the given type in this step
SimpleHandles(type) ==
    /\ variant = "simple"
    /\ btnQueue # << >>
    /\ Head(btnQueue) = type
    /\ btnQueue' = Tail(btnQueue)

\* C30: in the simple handler a falling edge is accepted (it appends one
\* point and sets the last accepted time to now) if and only if at least
\* 50 ms have passed since the last accepted press; a rejected falling edge
\* and every rising edge append nothing and leave the last accepted time
\* unchanged.
C30_SimpleDebounce ==
    [][/\ SimpleHandles("FALLING") =>
            IF lastBtnPressTime = ZeroTime \/ now - lastBtnPressTime >= 50
            THEN /\ Len(points') = Len(points) + 1
                 /\ SubSeq(points', 1, Len(points)) = points
                 /\ lastBtnPressTime' = now
            ELSE /\ points' = points
                 /\ lastBtnPressTime' = lastBtnPressTime
       /\ SimpleHandles("RISING") =>
            /\ points' = points
            /\ lastBtnPressTime' = lastBtnPressTime
       /\ (variant = "simple" /\ (points' # points \/ lastBtnPressTime' # lastBtnPressTime))
            => SimpleHandles("FALLING")]_vars

\* a falling edge was accepted exactly 50 ms after the accepted press
\* before it
C30_Witness ==
    /\ variant = "simple"
    /\ lastBtn.type = "FALLING"
    /\ lastBtn.since = 50
    /\ lastBtnPressTime = now
    /\ Len(points) = 2

\* a falling edge was rejected less than 50 ms after the accepted press,
\* which is still the last accepted one
C30_WitnessRejected ==
    /\ variant = "simple"
    /\ lastBtn.type = "FALLING"
    /\ lastBtn.since < 50
    /\ lastBtnPressTime = now - lastBtn.since
    /\ Len(points) = 1

(***************************************************************************)
(* C31                                                                     *)
(***************************************************************************)

\* the step of zero that empties the store, or a save request
ZeroOrSaveActs == (zeroPc = NumAxes /\ zeroPc' = -1) \/ saveN' = saveN + 1

\* C31: the number of stored points decreases in a zero or in an export
\* only: captures, count reads, axis reads and encoder edges neither remove
\* nor reorder stored points.
C31_ShrinksOnlyByZeroOrSave ==
    [][/\ Len(points') < Len(points) => ZeroOrSaveActs
       /\ ~ZeroOrSaveActs =>
             /\ Len(points') >= Len(points)
             /\ SubSeq(points', 1, Len(points)) = points]_vars

\* three points were captured and counted, all still stored in the order of
\* their capture
C31_Witness ==
    /\ Len(points) = 3
    /\ countResp = 3
    /\ appendN = 3
    /\ \A i \in 1 .. 3 : points[i].id = i
    /\ lastOp = "count"

\* two points were captured and a save of the simple revision has drained
\* the store
C31_WitnessDrained ==
    /\ variant = "simple"
    /\ lastOp = "save" /\ saveStatus = 200
    /\ Len(saveData) = 2
    /\ points = << >>

(***************************************************************************)
(* C32                                                                     *)
(***************************************************************************)

\* the coordinate of point p on axis a
Coord(p, a) == IF a = 0 THEN p.X ELSE IF a = 1 THEN p.Y ELSE p.Z

\* the last stored point is the point of the capture of client c, and on
\* axis a, which has made one step in all, it holds the distance of that
\* step while the counter of the axis is 0
StalePoint(c, a) ==
    /\ capPc[c] = -1
    /\ points # << >>
    /\ points[Len(points)].id = appendN
    /\ rot[a] = 1
    /\ capData[c][a + 1].Count # 0
    /\ Coord(points[Len(points)], a) = Distance(capData[c][a + 1].Count)
    /\ counter[a] = 0

\* C32: a capture is not atomic with zero: one capture and one zero can
\* interleave so that afterwards all counters are 0 and the store holds a
\* point derived from counters as they were before they were zeroed, or
\* from a mix of zeroed and not yet zeroed axes.  Such a point is stored
\* only while a zero runs, or after a zero that emptied the store while the
\* capture was in flight.
C32_StalePointOnlyByOverlap ==
    \A c \in Clients : \A a \in Axes :
        StalePoint(c, a) =>
            /\ zeroN >= 1
            /\ \/ zeroPc # -1
               \/ /\ Len(wlog) = 2
                  /\ wlog[1].op = "clear" /\ wlog[1].over
                  /\ wlog[2].op = "append" /\ wlog[2].id = appendN

\* the zero is over, all counters are 0, and the one stored point holds the
\* X read before the zero next to a Y read after it
C32_Witness ==
    /\ zeroN = 1 /\ zeroPc = -1
    /\ \A a \in Axes : counter[a] = 0 /\ pending[a] = 0 /\ hpc[a] = "idle"
    /\ \E c \in Clients : StalePoint(c, 0) /\ rot[1] = 1 /\ capData[c][2].Count = 0
    /\ Len(points) = 1
    /\ points[1].X # 0 /\ points[1].Y = 0



----------------------------------------------------------------------------
(* Specification of the locks: every section of the edge handlers, the     *)
(* sampler and the HTTP handlers is split where it takes and where it      *)
(* releases its lock, enc.mu of one axis or pointsMu.  A read lock admits   *)
(* other readers, a write lock nobody.                                      *)

\* the goroutines that only read under a lock
Readers == {"capture", "count"}

\* enc.mu.RLock() returns: nobody is inside a section of axis a that enc.mu
\* write-locks
CanRLock(a) == inCS[a] \subseteq Readers

\* what a step that only takes a lock leaves alone
LockFrame ==
    UNCHANGED <<obs2, btnAll, histAll, smpAll, variant, fault, encVars, points, now, edgeVars,
                zeroPc, capPc, capData, countResp, saveStatus, saveData,
                decObs, storeObs, zq, lastOp>>

\* enc.mu.Lock() returns in the zero handler
ZeroAxisLock ==
    /\ zeroPc \in Axes
    /\ "zero" \notin inCS[zeroPc]
    /\ CanLock(zeroPc)
    /\ inCS' = [inCS EXCEPT ![zeroPc] = @ \cup {"zero"}]
    /\ LockFrame
    /\ UNCHANGED <<sLocals, pmu, reqN>>

\* enc.counter = 0; enc.mu.Unlock()
ZeroAxisUnlock ==
    /\ zeroPc \in Axes
    /\ "zero" \in inCS[zeroPc]
    /\ ZeroAxisBody
    /\ inCS' = [inCS EXCEPT ![zeroPc] = @ \ {"zero"}]
    /\ UNCHANGED <<sLocals, pmu>>

\* pointsMu.Lock() returns in the zero handler
ZeroPointsLock ==
    /\ zeroPc = NumAxes
    /\ "zero" \notin pmu
    /\ CanLockPoints
    /\ pmu' = pmu \cup {"zero"}
    /\ LockFrame
    /\ UNCHANGED <<axVars, reqN>>

\* points = []Point{}; pointsMu.Unlock()
ZeroPointsUnlock ==
    /\ "zero" \in pmu
    /\ ZeroPointsBody
    /\ pmu' = pmu \ {"zero"}
    /\ UNCHANGED axVars

\* the one add-point request of the run arrives
CaptureAlone(c) ==
    /\ \A d \in Clients : capPc[d] = -1
    /\ appendN = 0
    /\ CaptureStart(c)

\* enc.mu.RLock() returns in getEncoderData
CaptureRLock(c) ==
    /\ capPc[c] \in Axes
    /\ "capture" \notin inCS[capPc[c]]
    /\ CanRLock(capPc[c])
    /\ inCS' = [inCS EXCEPT ![capPc[c]] = @ \cup {"capture"}]
    /\ LockFrame
    /\ UNCHANGED <<sLocals, pmu, reqN>>

\* count := enc.counter; rpm := enc.rpm; enc.mu.RUnlock()
CaptureRUnlock(c) ==
    /\ capPc[c] \in Axes
    /\ "capture" \in inCS[capPc[c]]
    /\ CaptureReadBody(c)
    /\ inCS' = [inCS EXCEPT ![capPc[c]] = @ \ {"capture"}]
    /\ UNCHANGED <<sLocals, pmu>>

\* pointsMu.Lock() returns in the add handler
CapturePointsLock(c) ==
    /\ capPc[c] = NumAxes
    /\ "capture" \notin pmu
    /\ CanLockPoints
    /\ pmu' = pmu \cup {"capture"}
    /\ LockFrame
    /\ UNCHANGED <<axVars, reqN>>

\* points = append(points, Point{...}); pointsMu.Unlock()
CapturePointsUnlock(c) ==
    /\ "capture" \in pmu
    /\ CaptureAppendBody(c)
    /\ pmu' = pmu \ {"capture"}
    /\ UNCHANGED axVars

\* the one count request of the run arrives; pointsMu.RLock() returns
CountRLock ==
    /\ countResp = -1
    /\ OpsDone < MaxOps
    /\ reqN' = reqN + 1
    /\ "count" \notin pmu
    /\ CanRLockPoints
    /\ pmu' = pmu \cup {"count"}
    /\ LockFrame
    /\ UNCHANGED axVars

\* count := len(points); pointsMu.RUnlock()
CountRUnlock ==
    /\ "count" \in pmu
    /\ CountBody
    /\ pmu' = pmu \ {"count"}
    /\ UNCHANGED <<axVars, reqN>>

\* the one save request of the run arrives; pointsMu.Lock() returns
SaveLock ==
    /\ saveN = 0
    /\ OpsDone < MaxOps
    /\ reqN' = reqN + 1
    /\ "save" \notin pmu
    /\ CanLockPoints
    /\ pmu' = pmu \cup {"save"}
    /\ LockFrame
    /\ UNCHANGED axVars

\* a save handler that never unlocks
HeldAfterSaveKept == pmu

\* a save handler that returns from the empty store with pointsMu locked
HeldAfterSaveNoUnlockOnEmpty ==
    IF Len(points) = 0 THEN (pmu \ {"save"}) \cup {"returned"} ELSE pmu \ {"save"}

\* who holds pointsMu when the save handler returns: both paths unlock,
\* if len(points) == 0 { pointsMu.Unlock(); ...; return } and the
\* pointsMu.Unlock() after the loop
HeldAfterSave == pmu \ {"save"}

\* if len(points) == 0 { pointsMu.Unlock(); ...; return }; ...; pointsMu.Unlock()
SaveUnlock ==
    /\ "save" \in pmu
    /\ SaveBody
    /\ pmu' = HeldAfterSave
    /\ UNCHANGED <<axVars, reqN>>

\* the one encoder step of the run, on any axis
OneStep(a) ==
    /\ RotTotal = 0
    /\ Rotate(a)

\* the one period the clock advances by
OnePeriod ==
    /\ now = 0
    /\ Period

\* the one tick of the run
OneTick ==
    /\ tickN = 0
    /\ SamplerWake

NextMutex ==
    \/ \E a \in Axes : OneStep(a)
    \/ \E a \in Axes : HandlerRead(a)
    \/ \E a \in Axes : HandlerLock(a)
    \/ \E a \in Axes : HandlerUnlock(a)
    \/ OnePeriod
    \/ OneTick
    \/ SamplerLock
    \/ SamplerUnlock
    \/ OneZero
    \/ ZeroAxisLock
    \/ ZeroAxisUnlock
    \/ ZeroPointsLock
    \/ ZeroPointsUnlock
    \/ \E c \in Clients : CaptureAlone(c)
    \/ \E c \in Clients : CaptureRLock(c)
    \/ \E c \in Clients : CaptureRUnlock(c)
    \/ \E c \in Clients : CapturePointsLock(c)
    \/ \E c \in Clients : CapturePointsUnlock(c)
    \/ CountRLock
    \/ CountRUnlock
    \/ SaveLock
    \/ SaveUnlock

SpecMutex == InitSampler /\ [][NextMutex]_vars


\* the goroutines that take more than one lock in their life
Walkers == {"sampler", "zero", "capture", "save", "count"}

\* the locks g holds: the axes whose enc.mu it is inside, and pointsMu
LocksHeld(g) ==
    Cardinality({a \in Axes : g \in inCS[a]}) + (IF g \in pmu THEN 1 ELSE 0)

\* a goroutine holds a lock only between taking it and the end of the section:
\* a handler with nothing to apply, a sampler between ticks, a zero or a
\* capture that is over hold none, and nobody else is ever a holder
HoldersRun ==
    /\ pmu \subseteq {"zero", "capture", "save", "count"}
    /\ \A a \in Axes :
          /\ inCS[a] \subseteq {"handler", "sampler", "zero", "capture"}
          /\ "handler" \in inCS[a] => hpc[a] = "apply"
          /\ "sampler" \in inCS[a] => spc = a
          /\ "zero" \in inCS[a] => zeroPc = a
          /\ "capture" \in inCS[a] => \E c \in Clients : capPc[c] = a
    /\ "zero" \in pmu => zeroPc = NumAxes
    /\ "capture" \in pmu => \E c \in Clients : capPc[c] = NumAxes

\* every holder can run to the end of its section and release the lock
HoldersRelease ==
    /\ \A a \in Axes :
          /\ "handler" \in inCS[a] => ENABLED HandlerUnlock(a)
          /\ "sampler" \in inCS[a] => ENABLED SamplerUnlock
          /\ "zero" \in inCS[a] => ENABLED ZeroAxisUnlock
          /\ "capture" \in inCS[a] => \E c \in Clients : ENABLED CaptureRUnlock(c)
    /\ "zero" \in pmu => ENABLED ZeroPointsUnlock
    /\ "capture" \in pmu => \E c \in Clients : ENABLED CapturePointsUnlock(c)
    /\ "count" \in pmu => ENABLED CountRUnlock
    /\ "save" \in pmu => ENABLED SaveUnlock

\* a goroutine is waiting for a lock or inside a section
Busy ==
    \/ \E a \in Axes : hpc[a] = "apply"
    \/ spc \in Axes
    \/ zeroPc # -1
    \/ \E c \in Clients : capPc[c] # -1
    \/ pmu # {}

\* one of the goroutines that are waiting or inside can take a step
SomeoneMoves ==
    \/ \E a \in Axes : ENABLED HandlerLock(a) \/ ENABLED HandlerUnlock(a)
    \/ ENABLED SamplerLock \/ ENABLED SamplerUnlock
    \/ ENABLED ZeroAxisLock \/ ENABLED ZeroAxisUnlock
    \/ ENABLED ZeroPointsLock \/ ENABLED ZeroPointsUnlock
    \/ \E c \in Clients : ENABLED CaptureRLock(c) \/ ENABLED CaptureRUnlock(c)
    \/ \E c \in Clients : ENABLED CapturePointsLock(c) \/ ENABLED CapturePointsUnlock(c)
    \/ ENABLED CountRUnlock
    \/ ENABLED SaveUnlock

----------------------------------------------------------------------------
\* C34: the rpm of a tick reflects the steps counted since the tick before:
\* when the sampler samples an axis it has sampled before, time has passed
\* and the handler has not changed the counter of the axis in between, the
\* rpm of the axis becomes 0, whether or not a zero ran in between.
C34_RpmZeroWithoutEdges ==
    [][\A a \in Axes :
          (SamplerActs(a) /\ smpN[a] >= 1 /\ ~edgeSince[a] /\ now - lastReadTime[a] > 0)
              => rpm'[a] = 0]_vars

\* the same, for the ticks between which no zero has been served
C34_RpmZeroWithoutEdgesNorZero ==
    [][\A a \in Axes :
          (SamplerActs(a) /\ smpN[a] >= 1 /\ ~edgeSince[a] /\ now - lastReadTime[a] > 0
              /\ zeroN = 0)
              => rpm'[a] = 0]_vars


----------------------------------------------------------------------------
\* C35: whatever the level of the two lines of an axis at start-up, the
\* handler of the first edge of the axis (the one step the shaft has made so
\* far) changes the counter by the table delta of the transition that took
\* place, from the level at start-up to the level it reads.
C35_FirstEdgeFromStartLevel ==
    [][\A a \in Axes :
          (HandlerActs(a) /\ rot[a] = 1)
              => counter'[a] - counter[a] = Lookup(TransitionIndex(startPins[a], sampled[a]))]_vars

\* the same, for the axes whose lines are both low at start-up
C35_FirstEdgeFromLowLines ==
    [][\A a \in Axes :
          (HandlerActs(a) /\ rot[a] = 1 /\ startPins[a] = 0)
              => counter'[a] - counter[a] = Lookup(TransitionIndex(startPins[a], sampled[a]))]_vars


----------------------------------------------------------------------------
\* the two edges of axis a have been handled
BothHandled(a) == rot[a] = 2 /\ pending[a] = 0 /\ hpc[a] = "idle"

\* the handler of the first edge of axis a read the lines after the second
\* step: of the two samples taken from lines that were low at start-up and
\* have made two steps the same way, one was the diagonal of the state the
\* handler held, which only the level after the second step can be
FirstReadAfterSecondStep(a) == startPins[a] = 0 /\ diagN[a] = 1

\* C36: the counter does not depend on when the handlers run: after two
\* clockwise steps of an axis that were both made before the handler of the
\* first edge read the lines, and the handling of both edges, the counter
\* has advanced by 2.
C36_TwoLateStepsCountTwo ==
    \A a \in Axes :
        (BothHandled(a) /\ FirstReadAfterSecondStep(a)) => counter[a] = 2

\* the same two steps, each read before the next one is made, count 2
C36_TwoPromptStepsCountTwo ==
    \A a \in Axes :
        (BothHandled(a) /\ startPins[a] = 0 /\ diagN[a] = 0) => counter[a] = 2


----------------------------------------------------------------------------
(* Specification of the start-up: main() requests the lines of the axes    *)
(* one after the other.  RequestLines has the kernel watch the two lines   *)
(* and the events handed to the handler from then on; enc.lines is         *)
(* assigned when it returns.  The handler runs on a goroutine of its own   *)
(* and reads enc.lines with no synchronisation.                             *)

\* what a step of the start-up leaves alone
StartFrame ==
    UNCHANGED <<obs2, lkVars, btnAll, histAll, smpAll, variant, fault, counter, lastState, lastReadTime,
                lastReadCount, rpm, points, now, edgeVars, httpVars, decObs, storeObs, zq, lastOp>>

\* gpiocdev.RequestLines(..., WithEventHandler(handler), WithBothEdges, ...) has
\* made the request: edges of axis a are watched; the axes come in the order
\* of encoderConfigs
RequestLines(a) ==
    /\ lines[a] = "none"
    /\ \A b \in Axes : b < a => lines[b] = "set"
    /\ lines' = [lines EXCEPT ![a] = "watched"]
    /\ StartFrame

\* enc.lines, err = gpiocdev.RequestLines(...): the call returns and the
\* handle is assigned
AssignLines(a) ==
    /\ lines[a] = "watched"
    /\ lines' = [lines EXCEPT ![a] = "set"]
    /\ StartFrame

\* a watched axis steps, in a run of MaxSteps steps
StepWatched(a) ==
    /\ lines[a] # "none"
    /\ StepAny(a)

\* enc.lines.Values(values) with enc.lines == nil: the handler dereferences
\* a nil *gpiocdev.Lines and panics
HandlerReadNil(a) ==
    /\ lines[a] = "watched"
    /\ hpc[a] = "idle"
    /\ pending[a] > 0
    /\ pending' = [pending EXCEPT ![a] = @ - 1]
    /\ fault' = TRUE
    /\ zq' = "n"
    /\ lastOp' = "edge"
    /\ UNCHANGED <<obs2, lkVars, btnAll, histAll, smpAll, variant, encVars, points, now, pins, hpc, sampled, httpVars,
                   decObs, storeObs>>

NextStartUp ==
    \/ \E a \in Axes : RequestLines(a)
    \/ \E a \in Axes : AssignLines(a)
    \/ \E a \in Axes : StepWatched(a)
    \/ \E a \in Axes : HandlerRead(a)
    \/ \E a \in Axes : HandlerReadNil(a)
    \/ \E a \in Axes : HandlerApply(a)

InitStartUp ==
    /\ variant \in Variants
    /\ maxHistory = 0
    /\ history = << >>
    /\ InitProgram
    /\ lines = [a \in Axes |-> "none"]

SpecStartUp == InitStartUp /\ [][NextStartUp]_vars

\* the handler of axis a takes an event and reads the lines
HandlerReads(a) == hpc[a] = "idle" /\ pending'[a] = pending[a] - 1

\* C37: the edge handler of an axis never uses enc.lines before it is
\* assigned: whenever a handler takes an event and reads the lines, the
\* handle of its axis is set, and no handler panics.
C37_HandleSetWhenRead ==
    /\ [](fault = FALSE)
    /\ [][\A a \in Axes : HandlerReads(a) => lines[a] = "set"]_vars

\* once the handle of an axis is assigned, its handler reads through it
C37_HandleSetOnceAssigned ==
    [][\A a \in Axes : (HandlerReads(a) /\ lines[a] # "watched") => (lines[a] = "set" /\ fault' = fault)]_vars


----------------------------------------------------------------------------
\* the save handler runs its section
SaveActs == saveN' = saveN + 1

\* the fields of the three axes
AllAxisFields == <<counter, lastState, lastReadTime, lastReadCount, rpm>>

\* C38: a save that finds the store empty answers 400 with no data, leaves
\* the store empty and the fields of every axis as they are, and leaves
\* pointsMu free.
C38_EmptySaveRejected ==
    [][(SaveActs /\ points = << >>) =>
          /\ saveStatus' = 400 /\ saveData' = << >>
          /\ points' = << >>
          /\ AllAxisFields' = AllAxisFields
          /\ pmu' = {}]_vars

\* witness: the one save of the run found the store empty and answered 400;
\* the counter of an axis that had stepped before is still there, and an
\* add-point request has taken pointsMu afterwards and appended its point
C38_Witness ==
    /\ saveN = 1 /\ saveStatus = 400 /\ saveData = << >>
    /\ pmu = {}
    /\ \E a \in Axes : counter[a] # 0
    /\ Len(points) = 1 /\ points[1].id = 1 /\ wlog # << >> /\ wlog[Len(wlog)].op = "append"
    /\ zeroN = 0


----------------------------------------------------------------------------
(* Specification of the history: in the revisions that record one, the     *)
(* sampler appends one data point per tick after its pass over the axes    *)
(* and trims the history to maxHistory; in part_001 a zero clears it.  The  *)
(* run starts either with the program or after it has ticked idle until    *)
(* the history is one point short of full.                                  *)

\* DataPoint{X: distances[0], Y: distances[1], Z: distances[2], Timestamp: ...}:
\* distances[i] is taken from currentCount, which the pass has stored in
\* enc.lastReadCount; the clock stands still within a tick
DataPoint == [X |-> Distance(lastReadCount[0]), Y |-> Distance(lastReadCount[1]),
              Z |-> Distance(lastReadCount[2]), Timestamp |-> now]

\* a trim that drops the newest points
TrimmedKeepsOldest(h) == IF Len(h) > maxHistory THEN SubSeq(h, 1, maxHistory) ELSE h

\* if len(history) > maxHistory { history = history[len(history)-maxHistory:] }
Trimmed(h) == IF Len(h) > maxHistory THEN SubSeq(h, Len(h) - maxHistory + 1, Len(h)) ELSE h

\* the program has ticked n times with the shafts at rest and no request
IdleRun(n) ==
    /\ tickN = 0 /\ now = 0 /\ spc = -1 /\ history = << >>
    /\ RotTotal = 0 /\ reqN = 0
    /\ n > 0
    /\ tickN' = n
    /\ now' = SamplePeriodMs * n
    /\ history' = Trimmed([i \in 1 .. n |-> [X |-> 0, Y |-> 0, Z |-> 0, Timestamp |-> SamplePeriodMs * i]])
    /\ lastReadTime' = [a \in Axes |-> SamplePeriodMs * n]
    /\ smpFrom' = [a \in Axes |-> SamplePeriodMs * (n - 1)]
    /\ smpN' = [a \in Axes |-> n]
    /\ UNCHANGED <<obs2, lkVars, btnAll, maxHistory, wsAll, variant, fault, counter, lastState, lastReadCount,
                   rpm, lines, points, edgeVars, httpVars, decObs, storeObs, zq, lastOp,
                   spc, spinStart, edgeSince>>

\* the tick the run started from
StartTick == IF tickN >= maxHistory - 1 THEN maxHistory - 1 ELSE 0

\* the ticker fires, in a run of MaxTicks ticks
WakeH ==
    /\ tickN < StartTick + MaxTicks
    /\ SamplerWake

\* the clock advances by a period of the ticker
PeriodH ==
    /\ now < SamplePeriodMs * (StartTick + MaxTicks)
    /\ now <= SamplePeriodMs * tickN
    /\ spc = -1
    /\ now' = now + SamplePeriodMs
    /\ SmpFrame
    /\ UNCHANGED <<lkVars, encVars, tickN, spc, spinStart, smpFrom, smpN, edgeSince>>

\* where the sampler goes after the append: back to the ticker, or, in
\* part_000, into broadcastDataPoint(point), which with no connection
\* registered changes nothing
AfterAppend == IF variant = "websocket" /\ wsClients # {} THEN NumAxes + 1 ELSE -1

\* historyMu.Lock(); history = append(history, DataPoint{...});
\* if len(history) > maxHistory { ... }; historyMu.Unlock()
HistoryAppend ==
    /\ spc = NumAxes
    /\ history' = Trimmed(Append(history, DataPoint))
    /\ spc' = AfterAppend
    /\ zq' = "n"
    /\ UNCHANGED <<obs2, lkVars, btnAll, maxHistory, wsAll, variant, fault, encVars, points, now, edgeVars,
                   httpVars, decObs, storeObs, lastOp, tickN, spinStart, smpFrom, smpN, edgeSince>>

\* the history after a zero: part_001 clears it (history = nil), part_000 has
\* no such statement
HistoryAfterZero == IF variant = "history" THEN << >> ELSE history

\* the end of the zero handler of the history revisions:
\* historyMu.Lock(); history = nil; historyMu.Unlock(); return c.SendStatus(200)
ZeroHistory ==
    /\ zeroPc = NumAxes
    /\ history' = HistoryAfterZero
    /\ zeroPc' = -1
    /\ zq' = IF zq \in {"run", "done"} THEN "done" ELSE "n"
    /\ lastOp' = "zero"
    /\ UNCHANGED <<obs2, lkVars, btnAll, maxHistory, wsAll, smpAll, variant, fault, encVars, points, now, edgeVars,
                   reqN, capPc, capData, countResp, saveStatus, saveData,
                   decObs, storeObs>>

NextHistory ==
    \/ IdleRun(maxHistory - 1)
    \/ \E a \in Axes : OneStep(a)
    \/ \E a \in Axes : HandlerRead(a)
    \/ \E a \in Axes : HandlerApply(a)
    \/ PeriodH
    \/ WakeH
    \/ SamplerAxis
    \/ HistoryAppend
    \/ OneZero
    \/ ZeroAxis
    \/ ZeroHistory

InitHistory ==
    /\ variant \in HistoryVariants
    /\ maxHistory = (IF variant = "history" THEN 500 ELSE 10000)
    /\ history = << >>
    /\ InitProgram
    /\ pins = [a \in Axes |-> 0]
    /\ lines = [a \in Axes |-> "set"]

SpecHistory == InitHistory /\ [][NextHistory]_vars


\* the sampler appends the point of a tick
HistoryActs == spc = NumAxes /\ spc' # spc

Min(x, y) == IF x < y THEN x ELSE y

\* C39: in the revisions that record a history, the history never holds
\* more than maxHistory points (500 in part_001, 10000 in part_000), and
\* after the append of a tick it is the history of before with the point of
\* the tick at its end, less its oldest points where that is more than
\* maxHistory: the most recent points, one per tick, in the order of the
\* ticks.
C39_HistoryMostRecentInOrder ==
    /\ [](Len(history) <= maxHistory)
    /\ [][HistoryActs =>
            LET all == Append(history, DataPoint)
                n   == Len(history')
            IN  /\ n = Min(Len(all), maxHistory)
                /\ history'[n] = DataPoint
                /\ \A i \in 1 .. n : history'[i] = all[Len(all) - n + i]
                /\ \A i \in 1 .. n - 1 :
                      history'[i + 1].Timestamp = history'[i].Timestamp + SamplePeriodMs]_vars

\* witness: part_001 after tick 501, the first to overflow the history: 500
\* points from the one of tick 2 to the one of tick 501, whose X is the
\* distance of the step the X axis has made
C39_Witness ==
    /\ variant = "history" /\ tickN = maxHistory + 1 /\ spc = -1
    /\ Len(history) = maxHistory
    /\ history[1].Timestamp = 2 * SamplePeriodMs
    /\ history[maxHistory].Timestamp = (maxHistory + 1) * SamplePeriodMs
    /\ counter[0] = 1 /\ history[maxHistory].X = Distance(1)
    /\ zeroN = 0


----------------------------------------------------------------------------
(* Specification of the WebSocket of part_000: the handler of a new         *)
(* connection registers it in wsClients, copies the history and writes it   *)
(* to the connection, while the sampler, after the append of each tick,     *)
(* writes the point of the tick to every registered connection.             *)

\* what a step of a connection handler leaves alone
WsFrame ==
    UNCHANGED <<obs2, lkVars, btnAll, history, maxHistory, smpAll, variant, fault, encVars, points,
                now, edgeVars, httpVars, decObs, storeObs, zq, lastOp>>

\* wsClientsMu.Lock(); wsClients[c] = true; wsClientsMu.Unlock(): the lock
\* is free while no broadcast holds its read lock
WsRegister(c) ==
    /\ wsPc[c] = "none"
    /\ spc # NumAxes + 2
    /\ wsClients' = wsClients \cup {c}
    /\ wsPc' = [wsPc EXCEPT ![c] = "registered"]
    /\ WsFrame
    /\ UNCHANGED <<wsCopy, wsOut, wsWriters, bTodo, bCur>>

\* historyMu.RLock(); history := make(...); copy(history, historyPoints);
\* historyMu.RUnlock()
WsCopyHistory(c) ==
    /\ wsPc[c] = "registered"
    /\ wsCopy' = [wsCopy EXCEPT ![c] = Len(history)]
    /\ wsPc' = [wsPc EXCEPT ![c] = "copied"]
    /\ WsFrame
    /\ UNCHANGED <<wsClients, wsOut, wsWriters, bTodo, bCur>>

\* if len(history) > 0 is false: the handler goes on to its read loop
WsNoHistory(c) ==
    /\ wsPc[c] = "copied"
    /\ wsCopy[c] = 0
    /\ wsPc' = [wsPc EXCEPT ![c] = "open"]
    /\ WsFrame
    /\ UNCHANGED <<wsClients, wsCopy, wsOut, wsWriters, bTodo, bCur>>

\* if len(history) > 0 { ...; c.WriteMessage(websocket.TextMessage, data): the
\* call is entered
WsWriteBegin(c) ==
    /\ wsPc[c] = "copied"
    /\ wsCopy[c] > 0
    /\ wsPc' = [wsPc EXCEPT ![c] = "writing"]
    /\ wsWriters' = [wsWriters EXCEPT ![c] = @ \cup {"handler"}]
    /\ WsFrame
    /\ UNCHANGED <<wsClients, wsCopy, wsOut, bTodo, bCur>>

\* c.WriteMessage returns: the "history" message is on the connection
WsWriteEnd(c) ==
    /\ wsPc[c] = "writing"
    /\ wsPc' = [wsPc EXCEPT ![c] = "open"]
    /\ wsOut' = [wsOut EXCEPT ![c] = Append(@, "history")]
    /\ wsWriters' = [wsWriters EXCEPT ![c] = @ \ {"handler"}]
    /\ WsFrame
    /\ UNCHANGED <<wsClients, wsCopy, bTodo, bCur>>

\* what a step of broadcastDataPoint leaves alone
BroadcastFrame ==
    UNCHANGED <<obs2, lkVars, btnAll, history, maxHistory, variant, fault, encVars, points,
                now, edgeVars, httpVars, decObs, storeObs, zq, lastOp,
                tickN, spinStart, smpFrom, smpN, edgeSince, wsClients, wsPc, wsCopy>>

\* data, err := json.Marshal(...); wsClientsMu.RLock(); for conn := range wsClients
BroadcastLock ==
    /\ spc = NumAxes + 1
    /\ spc' = NumAxes + 2
    /\ bTodo' = wsClients
    /\ BroadcastFrame
    /\ UNCHANGED <<wsOut, wsWriters, bCur>>

\* conn.WriteMessage(websocket.TextMessage, data): the call is entered
BroadcastWriteBegin(c) ==
    /\ spc = NumAxes + 2
    /\ bCur = 0
    /\ c \in bTodo
    /\ bCur' = c
    /\ bTodo' = bTodo \ {c}
    /\ wsWriters' = [wsWriters EXCEPT ![c] = @ \cup {"sampler"}]
    /\ BroadcastFrame
    /\ UNCHANGED <<spc, wsOut>>

\* conn.WriteMessage returns with no error: the "point" message is on the
\* connection
BroadcastWriteEnd ==
    /\ spc = NumAxes + 2
    /\ bCur # 0
    /\ wsOut' = [wsOut EXCEPT ![bCur] = Append(@, "point")]
    /\ wsWriters' = [wsWriters EXCEPT ![bCur] = @ \ {"sampler"}]
    /\ bCur' = 0
    /\ BroadcastFrame
    /\ UNCHANGED <<spc, bTodo>>

\* the range is over; the deferred wsClientsMu.RUnlock()
BroadcastUnlock ==
    /\ spc = NumAxes + 2
    /\ bCur = 0
    /\ bTodo = {}
    /\ spc' = -1
    /\ BroadcastFrame
    /\ UNCHANGED <<wsOut, wsWriters, bTodo, bCur>>

NextWebSocket ==
    \/ PeriodH
    \/ WakeH
    \/ SamplerAxis
    \/ HistoryAppend
    \/ BroadcastLock
    \/ \E c \in Clients : BroadcastWriteBegin(c)
    \/ BroadcastWriteEnd
    \/ BroadcastUnlock
    \/ \E c \in Clients : WsRegister(c)
    \/ \E c \in Clients : WsCopyHistory(c)
    \/ \E c \in Clients : WsNoHistory(c)
    \/ \E c \in Clients : WsWriteBegin(c)
    \/ \E c \in Clients : WsWriteEnd(c)

InitWebSocket == InitHistory /\ variant = "websocket"

SpecWebSocket == InitWebSocket /\ [][NextWebSocket]_vars

\* the position of the first message of type t on connection c, or 0
FirstOf(c, t) ==
    IF \E i \in 1 .. Len(wsOut[c]) : wsOut[c][i] = t
    THEN CHOOSE i \in 1 .. Len(wsOut[c]) :
            wsOut[c][i] = t /\ \A j \in 1 .. i - 1 : wsOut[c][j] # t
    ELSE 0

\* C40: on every connection the "history" message comes before any "point"
\* message: the sampler starts to write a point to a connection only when
\* the handler of the connection is past the write of its history, no
\* "history" message follows a "point" message, and never are two writers
\* inside WriteMessage on the same connection.
C40_HistoryBeforePoints ==
    /\ [](\A c \in Clients :
            /\ Cardinality(wsWriters[c]) <= 1
            /\ FirstOf(c, "history") # 0 /\ FirstOf(c, "point") # 0
                  => FirstOf(c, "history") < FirstOf(c, "point"))
    /\ [][\A c \in Clients :
            ("sampler" \notin wsWriters[c] /\ "sampler" \in wsWriters'[c]) => wsPc[c] = "open"]_vars

\* the order of the messages alone: no "history" after a "point"
C40_NoHistoryAfterPoint ==
    \A c \in Clients :
        (FirstOf(c, "history") # 0 /\ FirstOf(c, "point") # 0)
            => FirstOf(c, "history") < FirstOf(c, "point")

\* one writer at a time on a connection
C40_OneWriter == \A c \in Clients : Cardinality(wsWriters[c]) <= 1

\* once the handler is in its read loop, the points are written one at a time
C40_OneWriterOnceOpen ==
    \A c \in Clients : wsPc[c] = "open" => Cardinality(wsWriters[c]) <= 1

============================================================================
